---- MODULE Spec2Model ----
(***************************************************************************)
(* Billing state engine of csp-billing-adapter: the event loop of          *)
(* adapter.py, the cache operations of csp_cache.py and the metering       *)
(* engine of bill_utils.py.                                                *)
(*                                                                         *)
(* Time is counted in whole units from an arbitrary epoch.  A timestamp    *)
(* string (datetime.isoformat) is a fixed-width sequence of decimal        *)
(* digits, most significant first, so that comparing two timestamp strings *)
(* is the lexicographic comparison Python performs on str.                 *)
(***************************************************************************)
EXTENDS Integers, Sequences, FiniteSets, TLC

VARIABLES cache, csp_config, store_cache, store_csp_config, archive,
          now, start, pc, exit_code, metering, storage_faults, tick, raised,
          call

vars == <<cache, csp_config, store_cache, store_csp_config, archive,
          now, start, pc, exit_code, metering, storage_faults, tick, raised,
          call>>

(***************************************************************************)
(* Bounds of the model.                                                    *)
(***************************************************************************)
\* no tick starts after this instant
MaxTime == 7
\* longest pause between two ticks (query interval plus downtime)
MaxSleep == 3
\* the usage source reports a sample taken now or RecordLag units ago
RecordLag == 3
\* the usage source stops delivering once the buffer holds this many records
MaxRecords == 2
\* the storage backend fails (after all retries) at most this many times
MaxStorageFaults == 1
\* a tick (hook calls and their retries) takes at most this long
MaxTickTime == 3

(***************************************************************************)
(* Python dict helpers.                                                    *)
(***************************************************************************)
EmptyDict == [k \in {} |-> 0]

Put(d, k, v) == [x \in (DOMAIN d) \cup {k} |-> IF x = k THEN v ELSE d[x]]

Del(d, k) == [x \in (DOMAIN d) \ {k} |-> d[x]]

\* {**old, **new}
Merge(old, new) ==
    [x \in (DOMAIN old) \cup (DOMAIN new) |->
        IF x \in DOMAIN new THEN new[x] ELSE old[x]]

Max2(a, b) == IF a >= b THEN a ELSE b

Min2(a, b) == IF a <= b THEN a ELSE b

(***************************************************************************)
(* utils.py: timestamps and billing period arithmetic.                     *)
(***************************************************************************)
date_to_string(date) == <<date \div 10, date % 10>>

string_to_date(timestamp) == 10 * timestamp[1] + timestamp[2]

\* Python's str comparison: first differing character decides
StrLess(a, b) ==
    \E i \in 1..Len(a) :
        /\ i <= Len(b)
        /\ a[i] < b[i]
        /\ \A j \in 1..(i - 1) : a[j] = b[j]

StrLessEq(a, b) == a = b \/ StrLess(a, b)

get_date_delta(date, delta) == date + delta

TestIntervalMinutes == 5

(* A date is the number of minutes since 0001-01-01T00:00 UTC, the first
   datetime there is.  The next definitions are the calendar of Python's
   datetime and of dateutil's relativedelta, which utils.py adds to and
   subtracts from a date. *)
MinutesPerDay == 24 * 60

\* calendar.isleap
isleap(year) == year % 4 = 0 /\ (year % 100 # 0 \/ year % 400 = 0)

\* calendar.monthrange(year, month)[1]
days_in_month(year, month) ==
    IF month = 2 THEN (IF isleap(year) THEN 29 ELSE 28)
    ELSE IF month \in {4, 6, 9, 11} THEN 30 ELSE 31

\* the days before January 1st of the year
days_before_year(year) ==
    LET y == year - 1
    IN  y * 365 + y \div 4 - y \div 100 + y \div 400

\* the days of the year before the first of the month
RECURSIVE days_before_month(_, _)
days_before_month(year, month) ==
    IF month = 1 THEN 0
    ELSE days_before_month(year, month - 1) + days_in_month(year, month - 1)

\* datetime(year, month, day) at the given minute of the day
datetime(year, month, day, minute) ==
    (days_before_year(year) + days_before_month(year, month) + day - 1)
        * MinutesPerDay + minute

date_year(date) ==
    LET days == date \div MinutesPerDay
    IN  CHOOSE year \in (days \div 366 + 1)..(days \div 365 + 1) :
            /\ days_before_year(year) <= days
            /\ days < days_before_year(year + 1)

date_month(date) ==
    LET year == date_year(date)
        days == date \div MinutesPerDay - days_before_year(year)
    IN  CHOOSE month \in 1..12 :
            /\ days_before_month(year, month) <= days
            /\ days < days_before_month(year, month)
                        + days_in_month(year, month)

date_day(date) ==
    LET year == date_year(date)
    IN  date \div MinutesPerDay - days_before_year(year)
            - days_before_month(year, date_month(date)) + 1

date_minute(date) == date % MinutesPerDay

relativedelta(months, days, hours, minutes) ==
    [months |-> months, days |-> days, hours |-> hours, minutes |-> minutes]

\* relativedelta.__neg__
relativedelta_neg(delta) ==
    relativedelta(-delta.months, -delta.days, -delta.hours, -delta.minutes)

(* A variant of relativedelta_radd that keeps the day of the month as it is,
   whatever the length of the month it lands in. *)
relativedelta_radd_unclipped(dt, delta) ==
    LET moved == date_month(dt) + delta.months
        year == IF moved > 12 THEN date_year(dt) + 1
                ELSE IF moved < 1 THEN date_year(dt) - 1 ELSE date_year(dt)
        month == IF moved > 12 THEN moved - 12
                 ELSE IF moved < 1 THEN moved + 12 ELSE moved
        replaced == IF delta.months = 0 THEN dt
                    ELSE datetime(year, month, date_day(dt), date_minute(dt))
    IN  replaced + (delta.days * 24 + delta.hours) * 60 + delta.minutes

(* relativedelta.__radd__, dt + delta: the month is moved first, the day of
   the month is cut to the length of the month it lands in, and the days,
   hours and minutes are added to the result as a timedelta. *)
relativedelta_radd(dt, delta) ==
    LET moved == date_month(dt) + delta.months
        year == IF moved > 12 THEN date_year(dt) + 1
                ELSE IF moved < 1 THEN date_year(dt) - 1 ELSE date_year(dt)
        month == IF moved > 12 THEN moved - 12
                 ELSE IF moved < 1 THEN moved + 12 ELSE moved
        day == IF days_in_month(year, month) < date_day(dt)
               THEN days_in_month(year, month) ELSE date_day(dt)
        replaced == IF delta.months = 0 THEN dt
                    ELSE datetime(year, month, day, date_minute(dt))
    IN  replaced + (delta.days * 24 + delta.hours) * 60 + delta.minutes

get_relative_period_delta(billing_interval) ==
    IF billing_interval = "monthly" THEN relativedelta(1, 0, 0, 0)
    ELSE IF billing_interval = "daily" THEN relativedelta(0, 1, 0, 0)
    ELSE IF billing_interval = "hourly" THEN relativedelta(0, 0, 1, 0)
    ELSE IF billing_interval = "test"
         THEN relativedelta(0, 0, 0, TestIntervalMinutes)
    ELSE relativedelta(0, 0, 0, 0)

get_next_bill_time(date, billing_interval) ==
    relativedelta_radd(date, get_relative_period_delta(billing_interval))

\* date - delta is relativedelta.__rsub__: (-delta) + date
get_prev_bill_time(date, billing_interval) ==
    relativedelta_radd(date,
        relativedelta_neg(get_relative_period_delta(billing_interval)))

(***************************************************************************)
(* The loaded configuration (read-only).  usage_metrics is an ordered      *)
(* mapping: MetricOrder is its iteration order.                            *)
(***************************************************************************)
MetricOrder == <<"metric_a", "metric_b">>

\* the usage_metrics section of the configuration file the event loop runs
\* with
usage_metrics ==
    [metric_a |->
        [usage_aggregation |-> "maximum",
         consumption_reporting |-> "volume",
         dimensions |-> << [dimension |-> "dim_A", min |-> 0, max |-> 2] >>],
     metric_b |->
        [usage_aggregation |-> "average",
         minimum_consumption |-> 1,
         consumption_reporting |-> "tiered",
         dimensions |-> << [dimension |-> "dim_B", min |-> 0] >>]]

\* the billing dates and the end of support of a fixed billing
\* configuration: the first billing date lies after the last tick
billing_dates == <<MaxTime + 1, MaxTime + 2>>

end_of_support == MaxTime + 3

\* when get_billing_dimensions is exercised on its own, metric_b has the
\* consumption_reporting and the dimensions the call was given; the event
\* loop of a fixed billing deployment runs with billing_interval 'fixed'
config ==
    [billing_interval |-> IF call.op = "fixed_billing" THEN "fixed" ELSE "test",
     billing_dates |-> billing_dates,
     end_of_support |-> end_of_support,
     reporting_interval |-> 3,
     query_interval |-> 2,
     usage_metrics |->
        IF call.op = "get_billing_dimensions"
        THEN [usage_metrics EXCEPT
                !.metric_b.consumption_reporting = call.consumption_reporting,
                !.metric_b.dimensions = call.dimensions]
        ELSE usage_metrics]

Metrics == {MetricOrder[i] : i \in DOMAIN MetricOrder}

\* iteration order of a mapping keyed by dimension names
DimOrder == <<"dim_A", "dim_B">>

(***************************************************************************)
(* bill_utils.py: aggregation.                                             *)
(***************************************************************************)
RECURSIVE SumMetric(_, _)
SumMetric(metric, usage_records) ==
    IF usage_records = << >> THEN 0
    ELSE Head(usage_records)[metric] + SumMetric(metric, Tail(usage_records))

get_max_usage(metric, usage_records) ==
    IF usage_records = << >> THEN 0
    ELSE CHOOSE m \in {usage_records[i][metric] : i \in DOMAIN usage_records} :
            \A i \in DOMAIN usage_records : usage_records[i][metric] <= m

\* math.ceil(total_usage / len(usage_records))
get_average_usage(metric, usage_records) ==
    IF usage_records = << >> THEN 0
    ELSE LET total_usage == SumMetric(metric, usage_records)
             n == Len(usage_records)
         IN  (total_usage + n - 1) \div n

get_billable_usage(usage_records, empty_usage) ==
    IF empty_usage THEN [metric \in Metrics |-> 0]
    ELSE [metric \in Metrics |->
            LET data == config.usage_metrics[metric]
                usage == IF data.usage_aggregation = "average"
                         THEN get_average_usage(metric, usage_records)
                         ELSE get_max_usage(metric, usage_records)
                minimum == IF "minimum_consumption" \in DOMAIN data
                           THEN data.minimum_consumption ELSE 0
            IN  Max2(usage, minimum)]

(***************************************************************************)
(* bill_utils.py: mapping billable usage to billing dimensions.  A mapper  *)
(* yields [ok |-> TRUE, dims] or, when it raises, [ok |-> FALSE, exc,      *)
(* metric, value].                                                         *)
(***************************************************************************)
Raised(exc, metric, value) ==
    [ok |-> FALSE, exc |-> exc, metric |-> metric, value |-> value]

Returned(dims) == [ok |-> TRUE, dims |-> dims]

\* variant: only the lower bound of a dimension is tested
outside_volume_range_min_only(dimension, usage) ==
    "min" \in DOMAIN dimension /\ usage < dimension.min

\* the two tests of get_volume_dimensions that skip a dimension
outside_volume_range(dimension, usage) ==
    \/ "min" \in DOMAIN dimension /\ usage < dimension.min
    \/ "max" \in DOMAIN dimension /\ usage > dimension.max

RECURSIVE get_volume_dimensions(_, _, _, _)
get_volume_dimensions(usage_metric, usage, metric_dimensions, billed_dimensions) ==
    IF metric_dimensions = << >>
    THEN Raised("NoMatchingVolumeDimensionError", usage_metric, usage)
    ELSE LET dimension == Head(metric_dimensions)
         IN  IF outside_volume_range(dimension, usage)
             THEN get_volume_dimensions(usage_metric, usage,
                                        Tail(metric_dimensions), billed_dimensions)
             ELSE Returned(Put(billed_dimensions, dimension.dimension, usage))

\* variant: the range of a tier is taken as exclusive
dim_usage_exclusive(usage, dim_min, dim_max) == Min2(usage, dim_max) - dim_min

\* the usage of a tier: the inclusive range from dim_min to the lesser of
\* usage and dim_max
dim_usage(usage, dim_min, dim_max) == (Min2(usage, dim_max) - dim_min) + 1

\* the loop of get_tiered_dimensions: the pair of billed_dimensions and
\* unassigned_usage after the remaining metric_dimensions
RECURSIVE TieredLoop(_, _, _, _)
TieredLoop(usage, metric_dimensions, billed_dimensions, unassigned_usage) ==
    IF metric_dimensions = << >>
    THEN [dims |-> billed_dimensions, unassigned |-> unassigned_usage]
    ELSE LET dimension == Head(metric_dimensions)
         IN  IF "min" \in DOMAIN dimension /\ usage < dimension.min
             THEN TieredLoop(usage, Tail(metric_dimensions),
                             billed_dimensions, unassigned_usage)
             ELSE LET dim_min == Max2(IF "min" \in DOMAIN dimension
                                      THEN dimension.min ELSE 0, 1)
                      dim_max == IF "max" \in DOMAIN dimension
                                 THEN dimension.max ELSE usage
                      assigned == dim_usage(usage, dim_min, dim_max)
                  IN  TieredLoop(usage, Tail(metric_dimensions),
                                 Put(billed_dimensions, dimension.dimension, assigned),
                                 unassigned_usage - assigned)

\* variant: only usage that was assigned twice is an error
get_tiered_dimensions_overassigned(usage_metric, usage, metric_dimensions, billed_dimensions) ==
    LET done == TieredLoop(usage, metric_dimensions, billed_dimensions, usage)
    IN  IF done.unassigned < 0
        THEN Raised("MissingTieredDimensionError", usage_metric, usage)
        ELSE Returned(done.dims)

get_tiered_dimensions(usage_metric, usage, metric_dimensions, billed_dimensions) ==
    LET done == TieredLoop(usage, metric_dimensions, billed_dimensions, usage)
    IN  IF done.unassigned # 0
        THEN Raised("MissingTieredDimensionError", usage_metric, usage)
        ELSE Returned(done.dims)

AlreadyBilled(billing_status, usage_metric) ==
    /\ usage_metric \in DOMAIN billing_status
    /\ "status" \in DOMAIN billing_status[usage_metric]
    /\ billing_status[usage_metric].status = "submitted"

\* the loop of get_billing_dimensions over the metrics still to handle
RECURSIVE BillingDimensionsLoop(_, _, _, _)
BillingDimensionsLoop(metrics, billable_usage, billing_status, billed_dimensions) ==
    IF metrics = << >> THEN Returned(billed_dimensions)
    ELSE LET usage_metric == Head(metrics)
             usage == billable_usage[usage_metric]
             metric_config == config.usage_metrics[usage_metric]
             consumption_reporting == metric_config.consumption_reporting
             handled ==
                IF consumption_reporting = "tiered"
                THEN get_tiered_dimensions(usage_metric, usage,
                                           metric_config.dimensions, billed_dimensions)
                ELSE IF consumption_reporting = "volume"
                THEN get_volume_dimensions(usage_metric, usage,
                                           metric_config.dimensions, billed_dimensions)
                ELSE Raised("ConsumptionReportingInvalidError", usage_metric, usage)
         IN  IF AlreadyBilled(billing_status, usage_metric)
             THEN BillingDimensionsLoop(Tail(metrics), billable_usage,
                                        billing_status, billed_dimensions)
             ELSE IF ~handled.ok THEN handled
             ELSE BillingDimensionsLoop(Tail(metrics), billable_usage,
                                        billing_status, handled.dims)

get_billing_dimensions(billable_usage, billing_status) ==
    BillingDimensionsLoop(MetricOrder, billable_usage, billing_status, EmptyDict)

(***************************************************************************)
(* bill_utils.py: selecting the records of a billing period.  The range    *)
(* test compares timestamp strings.                                        *)
(***************************************************************************)
\* variant: the end of the range is taken as inclusive
filter_usage_records_by_date_range_inclusive(usage_records, range_start, range_end) ==
    SelectSeq(usage_records,
              LAMBDA record : /\ StrLessEq(range_start, record.reporting_time)
                              /\ StrLessEq(record.reporting_time, range_end))

filter_usage_records_by_date_range(usage_records, range_start, range_end) ==
    SelectSeq(usage_records,
              LAMBDA record : /\ StrLessEq(range_start, record.reporting_time)
                              /\ StrLess(record.reporting_time, range_end))

filter_usage_records_in_billing_period(usage_records, billing_period_end) ==
    LET range_end == string_to_date(billing_period_end)
        range_start == get_prev_bill_time(range_end, config.billing_interval)
    IN  filter_usage_records_by_date_range(usage_records,
                                           date_to_string(range_start),
                                           date_to_string(range_end))

\* the entries of a status mapping that carry an error, in mapping order
RECURSIVE ErrorsLoop(_, _)
ErrorsLoop(dimensions, status) ==
    IF dimensions = << >> THEN << >>
    ELSE LET dimension == Head(dimensions)
             rest == ErrorsLoop(Tail(dimensions), status)
         IN  IF dimension \in DOMAIN status /\ "error" \in DOMAIN status[dimension]
             THEN <<status[dimension].error>> \o rest
             ELSE rest

\* variant: stops at the first error found
get_errors_first(status) ==
    LET all == ErrorsLoop(DimOrder, status)
    IN  IF all = << >> THEN << >> ELSE <<Head(all)>>

get_errors(status) == ErrorsLoop(DimOrder, status)

(***************************************************************************)
(* csp_cache.py                                                            *)
(***************************************************************************)
\* variant: the start of the range is not checked
record_valid_unchecked(reporting_time, next_bill_time, billing_interval) == TRUE

record_valid(reporting_time, next_bill_time, billing_interval) ==
    LET range_end == string_to_date(next_bill_time)
        range_start == get_prev_bill_time(range_end, billing_interval)
    IN  range_start <= string_to_date(reporting_time)

\* variant: a record is a duplicate only when it equals the last one as a whole
add_usage_record_whole_record(record, c, billing_interval) ==
    IF billing_interval # "fixed"
       /\ ~record_valid(record.reporting_time, c.next_bill_time, billing_interval)
    THEN c.usage_records
    ELSE IF c.usage_records = << >> THEN <<record>>
    ELSE IF record # c.usage_records[Len(c.usage_records)]
    THEN Append(c.usage_records, record)
    ELSE c.usage_records

\* the value of cache['usage_records'] after add_usage_record(record, cache)
add_usage_record(record, c, billing_interval) ==
    IF billing_interval # "fixed"
       /\ ~record_valid(record.reporting_time, c.next_bill_time, billing_interval)
    THEN c.usage_records
    ELSE IF c.usage_records = << >> THEN <<record>>
    ELSE IF record.reporting_time # c.usage_records[Len(c.usage_records)].reporting_time
    THEN Append(c.usage_records, record)
    ELSE c.usage_records

\* the value of cache['last_bill'] after cache_meter_record
cache_meter_record(billing_status, dimensions, metering_time) ==
    [dimensions |-> dimensions,
     billing_status |-> billing_status,
     metering_time |-> metering_time]

\* Python's None, where a timestamp is expected
None == <<-1>>

\* the cache document built by create_cache at time t
create_cache(t) ==
    IF config.billing_interval = "fixed"
    THEN [adapter_start_time |-> date_to_string(t),
          next_bill_time |-> date_to_string(Head(config.billing_dates)),
          next_reporting_time |-> None,
          usage_records |-> << >>,
          last_bill |-> EmptyDict,
          trial_remaining |-> 0,
          remaining_billing_dates |-> Tail(config.billing_dates),
          configured_billing_dates |-> config.billing_dates,
          end_of_support |-> date_to_string(config.end_of_support)]
    ELSE [adapter_start_time |-> date_to_string(t),
          next_bill_time |->
            date_to_string(get_next_bill_time(t, config.billing_interval)),
          next_reporting_time |->
            date_to_string(get_date_delta(t, config.reporting_interval)),
          usage_records |-> << >>,
          last_bill |-> EmptyDict,
          trial_remaining |-> 1]

(***************************************************************************)
(* csp_config.py                                                           *)
(***************************************************************************)
create_csp_config(t) ==
    [billing_api_access_ok |-> TRUE,
     timestamp |-> date_to_string(t),
     expire |-> IF config.billing_interval = "fixed"
                THEN date_to_string(config.end_of_support)
                ELSE date_to_string(get_date_delta(t, config.reporting_interval)),
     errors |-> << >>]

(***************************************************************************)
(* The external collaborators: what the usage source and the CSP may       *)
(* answer.                                                                 *)
(***************************************************************************)
\* quantities per sample; metric_a = 3 matches no dimension of metric_a
Quantities == {[metric_a |-> 1, metric_b |-> 1], [metric_a |-> 3, metric_b |-> 2]}

\* the records hook.get_usage_data may return at time t
UsageData(t) ==
    {[reporting_time |-> date_to_string(t - lag),
      metric_a |-> q.metric_a,
      metric_b |-> q.metric_b] :
        lag \in {l \in {0, RecordLag} : l <= t}, q \in Quantities}

Succeeded == [record_id |-> "record_id", status |-> "succeeded"]

Failed == [error |-> "metering failed", status |-> "failed"]

\* the status mappings hook.meter_billing may return for the dimensions
StatusMappings(dimensions) == [DOMAIN dimensions -> {Succeeded, Failed}]

\* metering describes the latest process_metering attempt: which one ran,
\* what was passed to hook.meter_billing and what came back
NoMetering == [mode |-> "none", outcome |-> "none", timestamp |-> -1,
               dimensions |-> EmptyDict, status |-> EmptyDict]

\* call is the library call under way when a function of the package is
\* exercised on its own; the event loop leaves it alone
NoCall == [op |-> "none"]

\* tick describes what the collaborators answered in the current tick: the
\* answer of hook.get_usage_data and whether each store accepted its update
NoTick == [usage |-> "not_run", cache_saved |-> TRUE, csp_config_saved |-> TRUE]

(***************************************************************************)
(* exceptions.py and the handlers that end main().  raised is the          *)
(* exception that left the event loop, [type, code]; code is the argument  *)
(* of a SystemExit and -1 otherwise.                                       *)
(***************************************************************************)
NoException == [type |-> "none", code |-> -1]

Exception(type) == [type |-> type, code |-> -1]

SystemExit(code) == [type |-> "SystemExit", code |-> code]

\* CSPBillingAdapterException and its subclasses
CSPBillingAdapterException ==
    {"CSPBillingAdapterException", "NoMatchingVolumeDimensionError",
     "FailedToSaveCSPConfigError", "FailedToSaveCacheError"}

\* variant: every exception other than KeyboardInterrupt ends with code 1
main_exit_code_unexpected(exc) ==
    IF exc.type = "KeyboardInterrupt" THEN 0 ELSE 1

\* the except clauses of main(), in their order
main_exit_code(exc) ==
    IF exc.type = "KeyboardInterrupt" THEN 0
    ELSE IF exc.type = "SystemExit" THEN exc.code
    ELSE IF exc.type \in CSPBillingAdapterException THEN 2
    ELSE 1

\* the codes a plugin may pass to sys.exit()
ExitCodes == {0, 99}

(***************************************************************************)
(* adapter.py: bootstrap.  The initial state is main() inside               *)
(* initial_adapter_setup() on a first deployment, both stores still empty: *)
(* csp_config is the document built at time tc, cache the one built at     *)
(* time t >= tc, and neither has been saved yet.                           *)
(***************************************************************************)
Init ==
    \E tc \in {0}, t \in {0, 1} :
        /\ call = NoCall
        /\ now = t
        /\ start = t
        /\ cache = create_cache(t)
        /\ store_cache = EmptyDict
        /\ csp_config = create_csp_config(tc)
        /\ store_csp_config = EmptyDict
        /\ archive = << >>
        /\ pc = "setup"
        /\ exit_code = -1
        /\ metering = NoMetering
        /\ storage_faults = 0
        /\ tick = NoTick
        /\ raised = NoException

\* initial_adapter_setup(): hook.save_csp_config and hook.save_cache succeed
SetupOk ==
    /\ pc = "setup"
    /\ store_csp_config' = csp_config
    /\ store_cache' = cache
    /\ pc' = "metering_test"
    /\ UNCHANGED <<cache, csp_config, archive, now, start, exit_code, metering,
                   storage_faults, tick, raised, call>>

\* initial_adapter_setup(): hook.save_csp_config fails after its retries
\* (FailedToSaveCSPConfigError), or it succeeds and hook.save_cache fails
\* (FailedToSaveCacheError); main() exits with code 2
SetupFails ==
    /\ pc = "setup"
    /\ \/ /\ raised' = Exception("FailedToSaveCSPConfigError")
          /\ store_csp_config' = store_csp_config
       \/ /\ raised' = Exception("FailedToSaveCacheError")
          /\ store_csp_config' = csp_config
    /\ pc' = "exited"
    /\ exit_code' = main_exit_code(raised')
    /\ UNCHANGED <<cache, csp_config, store_cache, archive, now, start, metering,
                   storage_faults, tick, call>>

\* variant: the first tick follows the metering test at once
MeteringTestOk_NoSleep ==
    /\ pc = "metering_test"
    /\ pc' = "start"
    /\ UNCHANGED <<cache, csp_config, store_cache, store_csp_config, archive,
                   now, start, exit_code, metering, storage_faults,
                   tick, raised, call>>

\* metering_test(): the dry run succeeds; main() then sleeps one
\* query_interval because this is the initial deployment
MeteringTestOk ==
    /\ pc = "metering_test"
    /\ pc' = "sleep"
    /\ UNCHANGED <<cache, csp_config, store_cache, store_csp_config, archive,
                   now, start, exit_code, metering, storage_faults,
                   tick, raised, call>>

\* variant: a failure of the update_csp_config write replaces the error of
\* the metering test
MeteringTestFails_SaveFailureWins ==
    /\ pc = "metering_test"
    /\ \E saved \in BOOLEAN :
        /\ ~saved => storage_faults < MaxStorageFaults
        /\ csp_config' = [csp_config EXCEPT
                            !.errors = Append(@, "Metering test failed")]
        /\ store_csp_config' = IF saved THEN Merge(store_csp_config, csp_config')
                               ELSE store_csp_config
        /\ storage_faults' = IF saved THEN storage_faults ELSE storage_faults + 1
        /\ raised' = IF saved THEN Exception("CSPBillingAdapterException")
                      ELSE Exception("Exception")
    /\ pc' = "exited"
    /\ exit_code' = main_exit_code(raised')
    /\ UNCHANGED <<cache, store_cache, archive, now, start, metering, tick, call>>

\* metering_test(): the dry run raises; the error is recorded, one
\* update_csp_config is attempted and main() exits with code 2
MeteringTestFails ==
    /\ pc = "metering_test"
    /\ \E saved \in BOOLEAN :
        /\ ~saved => storage_faults < MaxStorageFaults
        /\ csp_config' = [csp_config EXCEPT
                            !.errors = Append(@, "Metering test failed")]
        /\ store_csp_config' = IF saved THEN Merge(store_csp_config, csp_config')
                               ELSE store_csp_config
        /\ storage_faults' = IF saved THEN storage_faults ELSE storage_faults + 1
    /\ raised' = Exception("CSPBillingAdapterException")
    /\ pc' = "exited"
    /\ exit_code' = main_exit_code(raised')
    /\ UNCHANGED <<cache, store_cache, archive, now, start, metering, tick, call>>

\* main(): config.query_interval - (get_now() - start).total_seconds()
query_interval_remainder == config.query_interval - (now - start)

\* main(): time.sleep() between two ticks.  The sleep tops the tick up to
\* query_interval, so two ticks start at least query_interval apart; the
\* next tick starts at most MaxSleep after this one
Sleep ==
    /\ pc = "sleep"
    /\ query_interval_remainder >= 0
    /\ \E d \in query_interval_remainder..(MaxSleep - (now - start)) :
        /\ now + d <= MaxTime
        /\ now' = now + d
    /\ pc' = "start"
    /\ UNCHANGED <<cache, csp_config, store_cache, store_csp_config, archive,
                   start, exit_code, metering, storage_faults,
                   tick, raised, call>>

\* main(): the tick took longer than query_interval; time.sleep() refuses a
\* negative length with ValueError and main() exits with code 1
SleepRaises ==
    /\ pc = "sleep"
    /\ query_interval_remainder < 0
    /\ raised' = Exception("ValueError")
    /\ pc' = "exited"
    /\ exit_code' = main_exit_code(raised')
    /\ UNCHANGED <<cache, csp_config, store_cache, store_csp_config, archive,
                   now, start, metering, storage_faults, tick, call>>

\* a KeyboardInterrupt is delivered.  It is not an Exception: neither
\* retry_on_exception nor a handler of event_loop_handler, process_metering
\* or metering_test catches it, whatever the loop is doing
Interrupt ==
    /\ pc \in {"setup", "metering_test", "sleep", "start", "meter", "persist"}
    /\ raised' = Exception("KeyboardInterrupt")
    /\ pc' = "exited"
    /\ exit_code' = main_exit_code(raised')
    /\ UNCHANGED <<cache, csp_config, store_cache, store_csp_config, archive,
                   now, start, metering, storage_faults, tick, call>>

(***************************************************************************)
(* adapter.py: event_loop_handler, first part: reset errors, retrieve      *)
(* usage and append it to the cache.                                       *)
(***************************************************************************)
\* variant: the errors of the previous tick are kept
GetUsageOk_KeepsErrors ==
    /\ pc = "start"
    /\ Len(cache.usage_records) < MaxRecords
    /\ \E usage \in UsageData(now) :
        /\ cache' = [cache EXCEPT !.usage_records =
                        add_usage_record(usage, cache, config.billing_interval)]
        /\ csp_config' = Put(csp_config, "base_product", "base_product")
    /\ tick' = [NoTick EXCEPT !.usage = "ok"]
    /\ start' = now
    /\ pc' = "meter"
    /\ UNCHANGED <<store_cache, store_csp_config, archive, now, exit_code,
                   metering, storage_faults, raised, call>>

GetUsageOk ==
    /\ pc = "start"
    /\ Len(cache.usage_records) < MaxRecords
    /\ \E usage \in UsageData(now) :
        /\ cache' = [cache EXCEPT !.usage_records =
                        add_usage_record(usage, cache, config.billing_interval)]
        /\ csp_config' = Put([csp_config EXCEPT !.errors = << >>],
                             "base_product", "base_product")
    /\ tick' = [NoTick EXCEPT !.usage = "ok"]
    /\ start' = now
    /\ pc' = "meter"
    /\ UNCHANGED <<store_cache, store_csp_config, archive, now, exit_code,
                   metering, storage_faults, raised, call>>

\* the hook returns nothing
GetUsageNone ==
    /\ pc = "start"
    /\ csp_config' = [csp_config EXCEPT !.errors = << >>]
    /\ tick' = [NoTick EXCEPT !.usage = "none"]
    /\ start' = now
    /\ pc' = "meter"
    /\ UNCHANGED <<cache, store_cache, store_csp_config, archive, now, exit_code,
                   metering, storage_faults, raised, call>>

\* variant: a tick without usage data goes straight to persistence
GetUsageFails_SkipsMetering ==
    /\ pc = "start"
    /\ csp_config' = [csp_config EXCEPT
                        !.errors = <<"Usage data retrieval failed">>]
    /\ tick' = [NoTick EXCEPT !.usage = "failed"]
    /\ start' = now
    /\ pc' = "persist"
    /\ UNCHANGED <<cache, store_cache, store_csp_config, archive, now, exit_code,
                   metering, storage_faults, raised, call>>

\* the hook raises on every retry
GetUsageFails ==
    /\ pc = "start"
    /\ csp_config' = [csp_config EXCEPT
                        !.errors = <<"Usage data retrieval failed">>]
    /\ tick' = [NoTick EXCEPT !.usage = "failed"]
    /\ start' = now
    /\ pc' = "meter"
    /\ UNCHANGED <<cache, store_cache, store_csp_config, archive, now, exit_code,
                   metering, storage_faults, raised, call>>

\* the hook ends the process with sys.exit(code): SystemExit is not an
\* Exception, so it leaves event_loop_handler right after the reset of errors
GetUsageSystemExit ==
    /\ pc = "start"
    /\ \E code \in ExitCodes :
        /\ raised' = SystemExit(code)
        /\ exit_code' = main_exit_code(raised')
    /\ csp_config' = [csp_config EXCEPT !.errors = << >>]
    /\ start' = now
    /\ pc' = "exited"
    /\ UNCHANGED <<cache, store_cache, store_csp_config, archive, now,
                   metering, storage_faults, tick, call>>

(***************************************************************************)
(* adapter.py: event_loop_handler, second part: which metering is due.     *)
(***************************************************************************)
\* variant: the reporting cursor is looked at first
MeteringMode_ReportingFirst ==
    IF start >= string_to_date(cache.next_reporting_time) THEN "empty"
    ELSE IF start >= string_to_date(cache.next_bill_time) THEN "real"
    ELSE "none"

\* "raises": string_to_date(None) hands None to dateutil's parser, whose
\* TypeError is not the ValueError string_to_date catches
MeteringMode ==
    IF start >= string_to_date(cache.next_bill_time) THEN "real"
    ELSE IF cache.next_reporting_time = None THEN "raises"
    ELSE IF start >= string_to_date(cache.next_reporting_time) THEN "empty"
    ELSE "none"

empty_metering == MeteringMode = "empty"

(***************************************************************************)
(* bill_utils.py: process_metering.  The values it computes before the     *)
(* call of hook.meter_billing, then one action per outcome of that call.   *)
(***************************************************************************)
billable_records ==
    filter_usage_records_in_billing_period(cache.usage_records, cache.next_bill_time)

\* variant: every record is kept
remaining_records_all == cache.usage_records

remaining_records ==
    SelectSeq(cache.usage_records,
              LAMBDA record :
                ~ \E i \in DOMAIN billable_records : billable_records[i] = record)

billable_usage == get_billable_usage(billable_records, empty_metering)

billed_dimensions ==
    get_billing_dimensions(billable_usage,
                           IF "billing_status" \in DOMAIN cache
                           THEN cache.billing_status ELSE EmptyDict)

RECURSIVE AppendAll(_, _)
AppendAll(list, items) ==
    IF items = << >> THEN list
    ELSE AppendAll(Append(list, Head(items)), Tail(items))

\* neither process_metering branch is due in this tick
SkipMetering ==
    /\ pc = "meter"
    /\ MeteringMode = "none"
    /\ pc' = "persist"
    /\ UNCHANGED <<cache, csp_config, store_cache, store_csp_config, archive,
                   now, start, exit_code, metering, storage_faults,
                   tick, raised, call>>

\* variant: the mapping error is not caught and ends main()
MeterMappingError_Fatal ==
    /\ pc = "meter"
    /\ MeteringMode # "none"
    /\ ~billed_dimensions.ok
    /\ metering' = [mode |-> MeteringMode, timestamp |-> start,
                    outcome |-> "mapping_error",
                    dimensions |-> EmptyDict, status |-> EmptyDict]
    /\ raised' = Exception(billed_dimensions.exc)
    /\ pc' = "exited"
    /\ exit_code' = main_exit_code(raised')
    /\ UNCHANGED <<cache, csp_config, store_cache, store_csp_config, archive,
                   now, start, storage_faults, tick, call>>

\* get_billing_dimensions raises: no CSP call is made
MeterMappingError ==
    /\ pc = "meter"
    /\ MeteringMode # "none"
    /\ ~billed_dimensions.ok
    /\ csp_config' = [csp_config EXCEPT
                        !.errors = Append(@, billed_dimensions.exc),
                        !.billing_api_access_ok = FALSE]
    /\ metering' = [mode |-> MeteringMode, timestamp |-> start,
                    outcome |-> "mapping_error",
                    dimensions |-> EmptyDict, status |-> EmptyDict]
    /\ pc' = "persist"
    /\ UNCHANGED <<cache, store_cache, store_csp_config, archive,
                   now, start, exit_code, storage_faults,
                   tick, raised, call>>

\* variant: the exception handler records the error but leaves
\* billing_api_access_ok as it was
MeterRaises_KeepsAccessOk ==
    /\ pc = "meter"
    /\ MeteringMode # "none"
    /\ billed_dimensions.ok
    /\ csp_config' = [csp_config EXCEPT
                        !.errors = Append(@, "meter_billing failed")]
    /\ metering' = [mode |-> MeteringMode, timestamp |-> start,
                    outcome |-> "raised",
                    dimensions |-> billed_dimensions.dims, status |-> EmptyDict]
    /\ pc' = "persist"
    /\ UNCHANGED <<cache, store_cache, store_csp_config, archive,
                   now, start, exit_code, storage_faults,
                   tick, raised, call>>

(* A variant of MeterRaises in which a meter_billing call that raised still
   moves the billing cycle on, so that the failed bill is not due again. *)
MeterRaises_AdvancesBillTime ==
    /\ pc = "meter"
    /\ MeteringMode # "none"
    /\ billed_dimensions.ok
    /\ csp_config' = [csp_config EXCEPT
                        !.errors = Append(@, "meter_billing failed"),
                        !.billing_api_access_ok = FALSE]
    /\ cache' = [cache EXCEPT
                    !.next_bill_time =
                        date_to_string(get_next_bill_time(
                            string_to_date(@), config.billing_interval))]
    /\ metering' = [mode |-> MeteringMode, timestamp |-> start,
                    outcome |-> "raised",
                    dimensions |-> billed_dimensions.dims, status |-> EmptyDict]
    /\ pc' = "persist"
    /\ UNCHANGED <<store_cache, store_csp_config, archive,
                   now, start, exit_code, storage_faults,
                   tick, raised, call>>

\* hook.meter_billing raises on every retry
MeterRaises ==
    /\ pc = "meter"
    /\ MeteringMode # "none"
    /\ billed_dimensions.ok
    /\ csp_config' = [csp_config EXCEPT
                        !.errors = Append(@, "meter_billing failed"),
                        !.billing_api_access_ok = FALSE]
    /\ metering' = [mode |-> MeteringMode, timestamp |-> start,
                    outcome |-> "raised",
                    dimensions |-> billed_dimensions.dims, status |-> EmptyDict]
    /\ pc' = "persist"
    /\ UNCHANGED <<cache, store_cache, store_csp_config, archive,
                   now, start, exit_code, storage_faults,
                   tick, raised, call>>

\* variant: the billable records are dropped although a dimension failed
MeterPartial_DropsBillable ==
    /\ pc = "meter"
    /\ MeteringMode # "none"
    /\ billed_dimensions.ok
    /\ \E billing_status \in StatusMappings(billed_dimensions.dims) :
        LET errors == get_errors(billing_status)
        IN  /\ errors # << >>
            /\ csp_config' = [csp_config EXCEPT
                                !.errors = AppendAll(@, errors),
                                !.billing_api_access_ok = FALSE]
            /\ cache' = Put([cache EXCEPT !.usage_records = remaining_records],
                            "billing_status", billing_status)
            /\ metering' = [mode |-> MeteringMode, timestamp |-> start,
                    outcome |-> "partial",
                            dimensions |-> billed_dimensions.dims,
                            status |-> billing_status]
    /\ pc' = "persist"
    /\ UNCHANGED <<store_cache, store_csp_config, archive, now, start, exit_code,
                   storage_faults,
                   tick, raised, call>>

(* A variant of MeterPartial in which per-dimension errors are recorded but
   billing_api_access_ok is left as it was. *)
MeterPartial_KeepsAccessOk ==
    /\ pc = "meter"
    /\ MeteringMode # "none"
    /\ billed_dimensions.ok
    /\ \E billing_status \in StatusMappings(billed_dimensions.dims) :
        LET errors == get_errors(billing_status)
        IN  /\ errors # << >>
            /\ csp_config' = [csp_config EXCEPT
                                !.errors = AppendAll(@, errors)]
            /\ cache' = Put(cache, "billing_status", billing_status)
            /\ metering' = [mode |-> MeteringMode, timestamp |-> start,
                            outcome |-> "partial",
                            dimensions |-> billed_dimensions.dims,
                            status |-> billing_status]
    /\ pc' = "persist"
    /\ UNCHANGED <<store_cache, store_csp_config, archive, now, start, exit_code,
                   storage_faults,
                   tick, raised, call>>

\* hook.meter_billing returns a status mapping with at least one error
MeterPartial ==
    /\ pc = "meter"
    /\ MeteringMode # "none"
    /\ billed_dimensions.ok
    /\ \E billing_status \in StatusMappings(billed_dimensions.dims) :
        LET errors == get_errors(billing_status)
        IN  /\ errors # << >>
            /\ csp_config' = [csp_config EXCEPT
                                !.errors = AppendAll(@, errors),
                                !.billing_api_access_ok = FALSE]
            /\ cache' = Put(cache, "billing_status", billing_status)
            /\ metering' = [mode |-> MeteringMode, timestamp |-> start,
                    outcome |-> "partial",
                            dimensions |-> billed_dimensions.dims,
                            status |-> billing_status]
    /\ pc' = "persist"
    /\ UNCHANGED <<store_cache, store_csp_config, archive, now, start, exit_code,
                   storage_faults,
                   tick, raised, call>>

\* variant: the next reporting time is counted from next_bill_time
CacheAfterSuccess_ReportFromBillTime(billing_status) ==
    LET cleared == Del(cache, "billing_status")
        next_reporting_time ==
            date_to_string(get_date_delta(string_to_date(cache.next_bill_time),
                                          config.reporting_interval))
        reported == [cleared EXCEPT !.next_reporting_time = next_reporting_time]
        next_bill_time ==
            date_to_string(get_next_bill_time(string_to_date(cache.next_bill_time),
                                              config.billing_interval))
    IN  IF empty_metering THEN reported
        ELSE [reported EXCEPT
                !.last_bill = cache_meter_record(billing_status,
                                                 billed_dimensions.dims,
                                                 date_to_string(start)),
                !.usage_records = remaining_records,
                !.next_bill_time = next_bill_time]

\* variant: the next bill time is stepped backwards
CacheAfterSuccess_PrevBillTime(billing_status) ==
    LET cleared == Del(cache, "billing_status")
        next_reporting_time ==
            date_to_string(get_date_delta(start, config.reporting_interval))
        reported == [cleared EXCEPT !.next_reporting_time = next_reporting_time]
        next_bill_time ==
            date_to_string(get_prev_bill_time(string_to_date(cache.next_bill_time),
                                              config.billing_interval))
    IN  IF empty_metering THEN reported
        ELSE [reported EXCEPT
                !.last_bill = cache_meter_record(billing_status,
                                                 billed_dimensions.dims,
                                                 date_to_string(start)),
                !.usage_records = remaining_records,
                !.next_bill_time = next_bill_time]

\* the cache after a fully successful metering at time 'start'
CacheAfterSuccess(billing_status) ==
    LET cleared == Del(cache, "billing_status")
        metering_time == date_to_string(start)
        next_reporting_time ==
            date_to_string(get_date_delta(start, config.reporting_interval))
        reported == [cleared EXCEPT !.next_reporting_time = next_reporting_time]
        next_bill_time ==
            date_to_string(get_next_bill_time(string_to_date(cache.next_bill_time),
                                              config.billing_interval))
    IN  IF empty_metering THEN reported
        ELSE [reported EXCEPT
                !.last_bill = cache_meter_record(billing_status,
                                                 billed_dimensions.dims,
                                                 metering_time),
                !.usage_records = remaining_records,
                !.next_bill_time = next_bill_time]

(* A variant of CspConfigAfterSuccess in which csp_config's expire is moved
   only by a metering that billed usage, not by an empty one. *)
CspConfigAfterSuccess_ExpireOnBillOnly ==
    LET metering_time == date_to_string(start)
        next_reporting_time ==
            date_to_string(get_date_delta(start, config.reporting_interval))
        reported == [csp_config EXCEPT !.billing_api_access_ok = TRUE]
    IN  IF empty_metering THEN reported
        ELSE Put(Put([reported EXCEPT !.expire = next_reporting_time],
                     "usage", billable_usage),
                 "last_billed", metering_time)

\* the csp_config after a fully successful metering at time 'start'
CspConfigAfterSuccess ==
    LET metering_time == date_to_string(start)
        next_reporting_time ==
            date_to_string(get_date_delta(start, config.reporting_interval))
        reported == [csp_config EXCEPT !.billing_api_access_ok = TRUE,
                                       !.expire = next_reporting_time]
    IN  IF empty_metering THEN reported
        ELSE Put(Put(reported, "usage", billable_usage),
                 "last_billed", metering_time)

\* hook.meter_billing returns a status mapping without any error
MeterSucceeds ==
    /\ pc = "meter"
    /\ MeteringMode # "none"
    /\ billed_dimensions.ok
    /\ \E billing_status \in StatusMappings(billed_dimensions.dims) :
        /\ get_errors(billing_status) = << >>
        /\ cache' = CacheAfterSuccess(billing_status)
        /\ csp_config' = CspConfigAfterSuccess
        /\ metering' = [mode |-> MeteringMode, timestamp |-> start,
                    outcome |-> "succeeded",
                        dimensions |-> billed_dimensions.dims,
                        status |-> billing_status]
    /\ pc' = "persist"
    /\ UNCHANGED <<store_cache, store_csp_config, archive, now, start, exit_code,
                   storage_faults,
                   tick, raised, call>>

\* hook.meter_billing returns a bare string: get_errors() calls .items()
\* on it, the AttributeError leaves process_metering and event_loop_handler
\* and main() exits with code 1
MeterLegacyString ==
    /\ pc = "meter"
    /\ MeteringMode # "none"
    /\ billed_dimensions.ok
    /\ metering' = [mode |-> MeteringMode, timestamp |-> start,
                    outcome |-> "legacy_string",
                    dimensions |-> billed_dimensions.dims, status |-> EmptyDict]
    /\ raised' = Exception("AttributeError")
    /\ pc' = "exited"
    /\ exit_code' = main_exit_code(raised')
    /\ UNCHANGED <<cache, csp_config, store_cache, store_csp_config, archive,
                   now, start, storage_faults, tick, call>>

(***************************************************************************)
(* adapter.py: event_loop_handler, last part: write both stores.  Either   *)
(* update may fail after its retries.  The time the whole tick took        *)
(* elapses here.                                                           *)
(***************************************************************************)
\* variant: after a failed cache write the csp_config write is not attempted
Persist_StopsAfterCacheFailure ==
    /\ pc = "persist"
    /\ \E elapsed \in 0..MaxTickTime : now' = now + elapsed
    /\ \E cache_saved \in BOOLEAN, csp_config_saved \in BOOLEAN :
        LET failures == (IF cache_saved THEN 0 ELSE 1)
                        + (IF csp_config_saved THEN 0 ELSE 1)
            after_cache ==
                [csp_config EXCEPT
                    !.errors = IF cache_saved THEN @
                               ELSE Append(@, "Cache failed to save"),
                    !.timestamp = date_to_string(start)]
        IN  /\ storage_faults + failures <= MaxStorageFaults
            /\ storage_faults' = storage_faults + failures
            /\ store_cache' = IF cache_saved THEN Merge(store_cache, cache)
                              ELSE store_cache
            /\ store_csp_config' = IF csp_config_saved /\ cache_saved
                                   THEN Merge(store_csp_config, after_cache)
                                   ELSE store_csp_config
            /\ csp_config' = IF csp_config_saved THEN after_cache
                             ELSE [after_cache EXCEPT
                                    !.errors = Append(@, "csp_config failed to save")]
            /\ tick' = [tick EXCEPT !.cache_saved = cache_saved,
                                    !.csp_config_saved = csp_config_saved]
    /\ pc' = "sleep"
    /\ UNCHANGED <<cache, archive, start, exit_code, metering, raised, call>>

\* variant: the timestamp is set after the csp_config has been written
Persist_TimestampAfterWrite ==
    /\ pc = "persist"
    /\ \E elapsed \in 0..MaxTickTime : now' = now + elapsed
    /\ \E cache_saved \in BOOLEAN, csp_config_saved \in BOOLEAN :
        LET failures == (IF cache_saved THEN 0 ELSE 1)
                        + (IF csp_config_saved THEN 0 ELSE 1)
            after_cache ==
                [csp_config EXCEPT
                    !.errors = IF cache_saved THEN @
                               ELSE Append(@, "Cache failed to save"),
                    !.timestamp = date_to_string(start)]
        IN  /\ storage_faults + failures <= MaxStorageFaults
            /\ storage_faults' = storage_faults + failures
            /\ store_cache' = IF cache_saved THEN Merge(store_cache, cache)
                              ELSE store_cache
            /\ store_csp_config' =
                    IF csp_config_saved
                    THEN Merge(store_csp_config,
                               [after_cache EXCEPT !.timestamp = csp_config.timestamp])
                    ELSE store_csp_config
            /\ csp_config' = IF csp_config_saved THEN after_cache
                             ELSE [after_cache EXCEPT
                                    !.errors = Append(@, "csp_config failed to save")]
            /\ tick' = [tick EXCEPT !.cache_saved = cache_saved,
                                    !.csp_config_saved = csp_config_saved]
    /\ pc' = "sleep"
    /\ UNCHANGED <<cache, archive, start, exit_code, metering, raised, call>>

Persist ==
    /\ pc = "persist"
    /\ \E elapsed \in 0..MaxTickTime : now' = now + elapsed
    /\ \E cache_saved \in BOOLEAN, csp_config_saved \in BOOLEAN :
        LET failures == (IF cache_saved THEN 0 ELSE 1)
                        + (IF csp_config_saved THEN 0 ELSE 1)
            after_cache ==
                [csp_config EXCEPT
                    !.errors = IF cache_saved THEN @
                               ELSE Append(@, "Cache failed to save"),
                    !.timestamp = date_to_string(start)]
        IN  /\ storage_faults + failures <= MaxStorageFaults
            /\ storage_faults' = storage_faults + failures
            /\ store_cache' = IF cache_saved THEN Merge(store_cache, cache)
                              ELSE store_cache
            /\ store_csp_config' = IF csp_config_saved
                                   THEN Merge(store_csp_config, after_cache)
                                   ELSE store_csp_config
            /\ csp_config' = IF csp_config_saved THEN after_cache
                             ELSE [after_cache EXCEPT
                                    !.errors = Append(@, "csp_config failed to save")]
            /\ tick' = [tick EXCEPT !.cache_saved = cache_saved,
                                    !.csp_config_saved = csp_config_saved]
    /\ pc' = "sleep"
    /\ UNCHANGED <<cache, archive, start, exit_code, metering, raised, call>>

Next ==
    \/ SetupOk
    \/ SetupFails
    \/ MeteringTestOk
    \/ MeteringTestFails
    \/ Sleep
    \/ SleepRaises
    \/ Interrupt
    \/ GetUsageOk
    \/ GetUsageNone
    \/ GetUsageFails
    \/ GetUsageSystemExit
    \/ SkipMetering
    \/ MeterMappingError
    \/ MeterRaises
    \/ MeterPartial
    \/ MeterSucceeds
    \/ MeterLegacyString
    \/ Persist

Spec == Init /\ [][Next]_vars

(***************************************************************************)
(* Properties.  A step "attempts a metering" when it leaves pc = "meter"   *)
(* through process_metering; metering' then describes the attempt.         *)
(***************************************************************************)
NextBillTime == string_to_date(cache.next_bill_time)

NextReportingTime == string_to_date(cache.next_reporting_time)

BillingDelta == get_relative_period_delta(config.billing_interval).minutes

CspCalled(m) == m.outcome \in {"raised", "partial", "succeeded", "legacy_string"}

\* the records of the cache whose reporting time lies in the billed window
InWindow(record) ==
    /\ NextBillTime - BillingDelta <= string_to_date(record.reporting_time)
    /\ string_to_date(record.reporting_time) < NextBillTime

\* C1: after a bill attempt that came back with dimension d 'succeeded' and
\* another dimension in error, the next bill attempt of the same billing
\* cycle does not pass d to meter_billing.
C1_SucceededNotResubmitted ==
    [][\A d \in {DimOrder[i] : i \in DOMAIN DimOrder} :
        ( /\ pc = "meter"
          /\ metering.mode = "real"
          /\ metering.outcome = "partial"
          /\ d \in DOMAIN metering.status
          /\ metering.status[d].status = "succeeded"
          /\ metering'.mode = "real"
          /\ metering'.timestamp = start
          /\ CspCalled(metering') )
        => d \notin DOMAIN metering'.dimensions]_vars

\* C2: a fully successful real-usage metering at time start moves
\* next_bill_time one billing interval beyond its previous value, removes
\* exactly the records of the billed window, stores the submission in
\* last_bill and writes usage and last_billed into csp_config.
C2_SuccessfulBilling ==
    [][( /\ pc = "meter"
         /\ metering'.timestamp = start
         /\ metering'.mode = "real"
         /\ metering'.outcome = "succeeded" )
       => /\ string_to_date(cache'.next_bill_time) = NextBillTime + BillingDelta
          /\ cache'.usage_records =
                SelectSeq(cache.usage_records, LAMBDA r : ~InWindow(r))
          /\ cache'.last_bill = [dimensions |-> metering'.dimensions,
                                 billing_status |-> metering'.status,
                                 metering_time |-> date_to_string(start)]
          /\ "usage" \in DOMAIN csp_config'
          /\ DOMAIN csp_config'.usage = Metrics
          /\ "last_billed" \in DOMAIN csp_config'
          /\ csp_config'.last_billed = date_to_string(start)]_vars

\* a bill submitted later than its due time has advanced next_bill_time,
\* dropped the billed records and kept a record of the next window
C2_Witness ==
    /\ pc = "persist"
    /\ metering.timestamp = start
    /\ metering.mode = "real"
    /\ metering.outcome = "succeeded"
    /\ start > NextBillTime - BillingDelta
    /\ cache.usage_records # << >>
    /\ DOMAIN metering.dimensions = {"dim_A", "dim_B"}

\* C3: when meter_billing raises, the exception text is appended to
\* csp_config.errors and billing_api_access_ok becomes false; the cache
\* (cursors, usage_records, last_bill, billing_status) is left as it was.
C3_MeterRaisesFrame ==
    [][( /\ pc = "meter"
         /\ metering'.timestamp = start
         /\ metering'.outcome = "raised" )
       => /\ csp_config'.errors = Append(csp_config.errors, "meter_billing failed")
          /\ csp_config'.billing_api_access_ok = FALSE
          /\ cache'.next_bill_time = cache.next_bill_time
          /\ cache'.next_reporting_time = cache.next_reporting_time
          /\ cache'.usage_records = cache.usage_records
          /\ cache'.last_bill = cache.last_bill
          /\ ("billing_status" \in DOMAIN cache') = ("billing_status" \in DOMAIN cache)
          /\ "billing_status" \in DOMAIN cache
                => cache'.billing_status = cache.billing_status]_vars

\* a raising bill attempt with records in the buffer, a bill already made in
\* an earlier cycle or a partial status kept from the previous attempt
C3_Witness ==
    /\ pc = "persist"
    /\ metering.timestamp = start
    /\ metering.mode = "real"
    /\ metering.outcome = "raised"
    /\ cache.usage_records # << >>
    /\ "billing_status" \in DOMAIN cache
    /\ csp_config.billing_api_access_ok = FALSE

\* C4: when the returned status has entries with an error, every such error
\* is appended to csp_config.errors, billing_api_access_ok becomes false,
\* the whole status is stored as cache.billing_status, and the cursors,
\* usage_records and last_bill are unchanged.
C4_PartialFailureFrame ==
    [][( /\ pc = "meter"
         /\ metering'.timestamp = start
         /\ metering'.outcome = "partial" )
       => LET status == metering'.status
              failed == {d \in DOMAIN status : "error" \in DOMAIN status[d]}
              added == Len(csp_config'.errors) - Len(csp_config.errors)
          IN  /\ failed # {}
              /\ added = Cardinality(failed)
              /\ SubSeq(csp_config'.errors, 1, Len(csp_config.errors))
                    = csp_config.errors
              /\ \A i \in (Len(csp_config.errors) + 1)..Len(csp_config'.errors) :
                    \E d \in failed : csp_config'.errors[i] = status[d].error
              /\ csp_config'.billing_api_access_ok = FALSE
              /\ "billing_status" \in DOMAIN cache'
              /\ cache'.billing_status = status
              /\ cache'.next_bill_time = cache.next_bill_time
              /\ cache'.next_reporting_time = cache.next_reporting_time
              /\ cache'.usage_records = cache.usage_records
              /\ cache'.last_bill = cache.last_bill]_vars

\* a partial failure in which both submitted dimensions carry an error
C4_Witness ==
    /\ pc = "persist"
    /\ metering.timestamp = start
    /\ metering.outcome = "partial"
    /\ \A d \in {"dim_A", "dim_B"} :
        d \in DOMAIN metering.status /\ "error" \in DOMAIN metering.status[d]
    /\ cache.usage_records # << >>

\* C5 (as stated): every record of the cache lies inside the current billing
\* window, prev_bill_time(next_bill_time) <= reporting_time < next_bill_time.
C5_WindowClosure ==
    \A i \in DOMAIN cache.usage_records : InWindow(cache.usage_records[i])

\* C5 (amended): no record of the cache is older than the start of the
\* current billing window; a record at or after next_bill_time is accepted
\* and kept for a later cycle.
C5_NoRecordBeforeWindow ==
    \A i \in DOMAIN cache.usage_records :
        get_prev_bill_time(NextBillTime, config.billing_interval)
            <= string_to_date(cache.usage_records[i].reporting_time)

\* the buffer holds a record of the current window and one beyond its end
C5_Witness ==
    /\ pc = "meter"
    /\ \E i, j \in DOMAIN cache.usage_records :
        /\ InWindow(cache.usage_records[i])
        /\ string_to_date(cache.usage_records[j].reporting_time) >= NextBillTime

\* C6 (as stated): between ticks next_reporting_time <= next_bill_time.
C6_ReportingNotAfterBilling ==
    pc = "sleep" => NextReportingTime <= NextBillTime

\* C6 (amended): between ticks next_reporting_time is at most one
\* reporting_interval after the start of the latest tick (after the creation
\* of the cache before the first tick); it may lie after next_bill_time.
C6_ReportingWithinInterval ==
    pc = "sleep" =>
        NextReportingTime <= get_date_delta(start, config.reporting_interval)

\* between two ticks, after an empty metering close to the bill time, the
\* next reporting time lies after the next bill time
C6_Witness ==
    /\ pc = "sleep"
    /\ metering.mode = "empty"
    /\ metering.outcome = "succeeded"
    /\ NextReportingTime > NextBillTime

\* C7: neither next_bill_time nor next_reporting_time ever decreases,
\* whatever the outcome of the CSP calls.
C7_CursorsMonotonic ==
    [][/\ string_to_date(cache'.next_bill_time) >= NextBillTime
       /\ string_to_date(cache'.next_reporting_time) >= NextReportingTime]_vars

\* both cursors have moved since the cache was created
C7_Witness ==
    /\ NextBillTime > get_next_bill_time(string_to_date(cache.adapter_start_time),
                                         config.billing_interval)
    /\ NextReportingTime > get_date_delta(string_to_date(cache.adapter_start_time),
                                          config.reporting_interval)
    /\ metering.outcome \in {"raised", "partial", "mapping_error", "succeeded"}

\* C8: a bare string returned by meter_billing is a full success: the
\* status {dim: {record_id: string, status: succeeded}} is recorded for
\* every submitted dimension, the cursors advance, and nothing is raised and
\* no error recorded.
C8_LegacyStringIsSuccess ==
    [][( /\ pc = "meter"
         /\ metering'.timestamp = start
         /\ metering'.outcome = "legacy_string" )
       => /\ pc' = "persist"
          /\ exit_code' = exit_code
          /\ csp_config'.errors = csp_config.errors
          /\ csp_config'.billing_api_access_ok = TRUE
          /\ string_to_date(cache'.next_reporting_time)
                = get_date_delta(start, config.reporting_interval)
          /\ metering'.mode = "real" =>
                /\ string_to_date(cache'.next_bill_time)
                        = NextBillTime + BillingDelta
                /\ cache'.last_bill # EmptyDict
                /\ cache'.last_bill.billing_status =
                        [d \in DOMAIN metering'.dimensions |-> Succeeded]]_vars

\* C9: an empty metering at time start that the CSP accepts (an error-free
\* status mapping or a bare string) leaves usage_records, last_bill and
\* next_bill_time unchanged, does not write usage and last_billed, sets
\* billing_api_access_ok, and moves next_reporting_time and expire to
\* start + reporting_interval.
C9_EmptyMeteringFrame ==
    [][( /\ pc = "meter"
         /\ metering'.timestamp = start
         /\ metering'.mode = "empty"
         /\ metering'.outcome \in {"succeeded", "legacy_string"} )
       => /\ cache'.usage_records = cache.usage_records
          /\ cache'.last_bill = cache.last_bill
          /\ cache'.next_bill_time = cache.next_bill_time
          /\ ("usage" \in DOMAIN csp_config') = ("usage" \in DOMAIN csp_config)
          /\ "usage" \in DOMAIN csp_config => csp_config'.usage = csp_config.usage
          /\ ("last_billed" \in DOMAIN csp_config')
                = ("last_billed" \in DOMAIN csp_config)
          /\ "last_billed" \in DOMAIN csp_config
                => csp_config'.last_billed = csp_config.last_billed
          /\ csp_config'.billing_api_access_ok = TRUE
          /\ string_to_date(cache'.next_reporting_time)
                = get_date_delta(start, config.reporting_interval)
          /\ csp_config'.expire = cache'.next_reporting_time]_vars

\* C10: a fully successful real-usage metering appends exactly one entry
\* {billing_time, billing_status, billed_usage, usage_records} to the
\* metering archive; no other step changes the archive.
C10_ArchiveEntryPerBill ==
    [][IF /\ pc = "meter"
          /\ metering'.timestamp = start
          /\ metering'.mode = "real"
          /\ metering'.outcome = "succeeded"
       THEN /\ Len(archive') = Len(archive) + 1
            /\ SubSeq(archive', 1, Len(archive)) = archive
            /\ archive'[Len(archive')].billing_time = date_to_string(start)
            /\ archive'[Len(archive')].billing_status = metering'.status
            /\ archive'[Len(archive')].usage_records =
                    SelectSeq(cache.usage_records, InWindow)
       ELSE archive' = archive]_vars

(***************************************************************************)
(* Properties of the event loop.  A step is an interruption when it ends   *)
(* main() through KeyboardInterrupt.                                       *)
(***************************************************************************)
Interrupted == pc' = "exited" /\ raised'.type = "KeyboardInterrupt"

\* the tick of the current 'start' has made a process_metering attempt
MeteredThisTick == metering.timestamp = start

\* C11 (as stated): when a tick whose metering fully succeeded has written
\* the cache to a store that merges shallowly, the persisted cache has no
\* billing_status key, like the in-memory cache.
C11_PersistedStatusCleared ==
    [][( /\ pc = "persist"
         /\ pc' = "sleep"
         /\ tick'.cache_saved
         /\ MeteredThisTick
         /\ metering.outcome = "succeeded" )
       => /\ "billing_status" \notin DOMAIN cache'
          /\ "billing_status" \notin DOMAIN store_cache']_vars

\* the exceptions get_billing_dimensions raises for unmappable usage
MappingErrors ==
    {"NoMatchingVolumeDimensionError", "MissingTieredDimensionError",
     "ConsumptionReportingInvalidError"}

\* the errors a tick must have recorded, from what its collaborators did
UsageErrors ==
    IF tick.usage = "failed" THEN <<"Usage data retrieval failed">> ELSE << >>

MeteringErrors ==
    IF ~MeteredThisTick THEN {<< >>}
    ELSE IF metering.outcome = "raised" THEN {<<"meter_billing failed">>}
    ELSE IF metering.outcome = "partial"
    THEN LET failed == {d \in DOMAIN metering.status :
                            "error" \in DOMAIN metering.status[d]}
         IN  {[i \in 1..Cardinality(failed) |-> Failed.error]}
    ELSE IF metering.outcome = "mapping_error"
    THEN {<<e>> : e \in MappingErrors}
    ELSE {<< >>}

StorageErrors ==
    (IF tick.cache_saved THEN << >> ELSE <<"Cache failed to save">>)
    \o (IF tick.csp_config_saved THEN << >> ELSE <<"csp_config failed to save">>)

\* C12: at the end of a tick csp_config.errors is exactly the list of the
\* errors of that tick, in the order usage retrieval, metering, cache
\* write, csp_config write; nothing of an earlier tick is left in it.
C12_ErrorsOfThisTick ==
    (pc = "sleep" /\ tick.usage # "not_run")
        => \E m \in MeteringErrors :
            csp_config.errors = UsageErrors \o m \o StorageErrors

\* a tick without any error has ended after a tick whose metering partially
\* failed (the store still holds the status written by that tick)
C12_Witness ==
    /\ pc = "sleep"
    /\ tick.usage = "ok"
    /\ MeteredThisTick
    /\ metering.outcome = "succeeded"
    /\ "billing_status" \in DOMAIN store_cache
    /\ csp_config.errors = << >>

\* C13: a tick makes the process_metering call its start time asks for and
\* no other: real usage from next_bill_time on, an empty metering from
\* next_reporting_time up to next_bill_time, none before both cursors; no
\* step outside that point of the tick makes one.
C13_OneMeteringPerTick ==
    [][/\ (pc = "meter" /\ ~Interrupted) =>
            IF start >= NextBillTime
            THEN metering'.timestamp = start /\ metering'.mode = "real"
            ELSE IF start >= NextReportingTime
            THEN metering'.timestamp = start /\ metering'.mode = "empty"
            ELSE /\ metering' = metering
                 /\ cache' = cache
                 /\ csp_config' = csp_config
                 /\ pc' = "persist"
       /\ pc # "meter" => metering' = metering]_vars

\* a bill attempt made in a tick whose start time has passed both cursors
C13_Witness ==
    /\ pc = "persist"
    /\ MeteredThisTick
    /\ metering.mode = "real"
    /\ metering.outcome = "raised"
    /\ start >= NextBillTime
    /\ start >= NextReportingTime

C15_StorageFailureFrame ==
    [][( /\ pc = "persist"
         /\ ~Interrupted
         /\ ~tick'.cache_saved \/ ~tick'.csp_config_saved )
       => LET cache_error ==
                IF tick'.cache_saved THEN << >> ELSE <<"Cache failed to save">>
              written ==
                [csp_config EXCEPT !.errors = @ \o cache_error,
                                   !.timestamp = date_to_string(start)]
          IN  /\ pc' = "sleep"
              /\ exit_code' = exit_code
              /\ cache' = cache
              /\ csp_config'.timestamp = date_to_string(start)
              /\ tick'.cache_saved =>
                    store_cache' = Merge(store_cache, cache)
              /\ tick'.csp_config_saved =>
                    /\ csp_config' = written
                    /\ store_csp_config' = Merge(store_csp_config, written)
              /\ ~tick'.csp_config_saved =>
                    csp_config' = [written EXCEPT !.errors =
                                    Append(@, "csp_config failed to save")]]_vars

\* after a successful bill the cache write failed: the csp_config store
\* holds the tick's usage and the error, the cache store is behind
C15_Witness ==
    /\ pc = "sleep"
    /\ ~tick.cache_saved
    /\ MeteredThisTick
    /\ metering.mode = "real"
    /\ metering.outcome = "succeeded"
    /\ store_cache # Merge(store_cache, cache)
    /\ store_csp_config.timestamp = date_to_string(start)
    /\ store_csp_config.errors = <<"Cache failed to save">>
    /\ "last_billed" \in DOMAIN store_csp_config

\* C16: when get_usage_data fails, the tick records 'Usage data retrieval
\* failed', leaves usage_records and base_product alone, and still makes
\* the metering that is due, writes both stores and sets timestamp.
C16_UsageFailureFrame ==
    [][/\ (pc = "start" /\ pc' # "exited" /\ tick'.usage = "failed") =>
            /\ csp_config'.errors = <<"Usage data retrieval failed">>
            /\ cache' = cache
            /\ ("base_product" \in DOMAIN csp_config')
                    = ("base_product" \in DOMAIN csp_config)
            /\ "base_product" \in DOMAIN csp_config =>
                    csp_config'.base_product = csp_config.base_product
            /\ pc' = "meter"
       /\ (pc = "meter" /\ tick.usage = "failed" /\ ~Interrupted) =>
            /\ start >= Min2(NextBillTime, NextReportingTime) =>
                    metering'.timestamp = start
            /\ pc' = "exited" => metering'.outcome = "legacy_string"
       /\ (pc = "persist" /\ tick.usage = "failed" /\ ~Interrupted) =>
            /\ pc' = "sleep"
            /\ csp_config'.timestamp = date_to_string(start)
            /\ tick'.cache_saved => store_cache' = Merge(store_cache, cache)
            /\ tick'.csp_config_saved =>
                    store_csp_config' = Merge(store_csp_config, csp_config')]_vars

\* a tick without usage data has billed the records of earlier ticks and
\* written both stores
C16_Witness ==
    /\ pc = "sleep"
    /\ tick.usage = "failed"
    /\ tick.cache_saved
    /\ tick.csp_config_saved
    /\ MeteredThisTick
    /\ metering.mode = "real"
    /\ metering.outcome = "succeeded"
    /\ "base_product" \in DOMAIN csp_config
    /\ store_csp_config.errors = <<"Usage data retrieval failed">>
    /\ store_csp_config.timestamp = date_to_string(start)

\* C17 (as stated): when the tick took longer than query_interval the loop
\* sleeps for 0 seconds and starts the next tick; the process does not exit.
C17_NegativeRemainderSleepsZero ==
    [][( /\ pc = "sleep"
         /\ query_interval_remainder < 0
         /\ ~Interrupted )
       => /\ pc' = "start"
          /\ now' = now
          /\ exit_code' = exit_code]_vars

\* C18 (as stated): a KeyboardInterrupt ends the process only before a tick
\* has retrieved its usage data (during bootstrap, the sleep or the start of
\* the loop body), never between that and the writes of the two stores.
C18_InterruptWaitsForTick ==
    [][Interrupted => pc \in {"setup", "metering_test", "sleep", "start"}]_vars

\* C19: main() has exited exactly when an exception left it, and the exit
\* code follows from that exception: 0 for KeyboardInterrupt, the code of a
\* SystemExit, 2 for CSPBillingAdapterException and its subclasses, 1 for
\* anything else.
C19_ExitCodes ==
    /\ pc # "exited" => raised = NoException /\ exit_code = -1
    /\ pc = "exited" =>
        /\ raised # NoException
        /\ raised.type = "KeyboardInterrupt" => exit_code = 0
        /\ raised.type = "SystemExit" => exit_code = raised.code
        /\ raised.type \in {"CSPBillingAdapterException",
                            "FailedToSaveCSPConfigError",
                            "FailedToSaveCacheError"} => exit_code = 2
        /\ raised.type \in {"AttributeError", "ValueError"} => exit_code = 1

\* a plugin has ended the loop with sys.exit(99)
C19_Witness ==
    /\ pc = "exited"
    /\ raised = SystemExit(99)
    /\ exit_code = 99
    /\ start > 0

\* C20: when the metering test fails, the error is appended to
\* csp_config.errors, one update_csp_config write is attempted, and a
\* CSPBillingAdapterException ends main() with code 2 whether or not the
\* write succeeded; nothing runs after the exit, so no tick is ever made.
C20_MeteringTestFailureExits ==
    [][/\ (pc = "metering_test" /\ pc' = "exited" /\ ~Interrupted) =>
            /\ csp_config'.errors = Append(csp_config.errors, "Metering test failed")
            /\ \/ store_csp_config' = Merge(store_csp_config, csp_config')
               \/ store_csp_config' = store_csp_config
            /\ raised' = Exception("CSPBillingAdapterException")
            /\ exit_code' = 2
            /\ tick' = NoTick
            /\ cache' = cache
            /\ store_cache' = store_cache
       /\ pc = "exited" => pc' = "exited" /\ tick' = tick]_vars

\* the metering test failed and so did the write of csp_config
C20_Witness ==
    /\ pc = "exited"
    /\ exit_code = 2
    /\ raised = Exception("CSPBillingAdapterException")
    /\ csp_config.errors = <<"Metering test failed">>
    /\ store_csp_config.errors = << >>
    /\ tick = NoTick

\* C30 (as stated): trial_remaining is 1 until the first fully successful
\* real-usage billing (which fills last_bill) and 0 from then on.
C30_TrialEndsAtFirstBill ==
    cache.trial_remaining = IF cache.last_bill = EmptyDict THEN 1 ELSE 0

(***************************************************************************)
(* Library functions exercised on their own.  While one of them runs, the  *)
(* documents of the event loop stay as initial_adapter_setup() built them  *)
(* at time 0.                                                              *)
(***************************************************************************)
loop_vars == <<cache, csp_config, store_cache, store_csp_config, archive,
               now, start, pc, exit_code, metering, storage_faults, tick, raised>>

LoopAtRest ==
    /\ now = 0
    /\ start = 0
    /\ cache = create_cache(0)
    /\ store_cache = EmptyDict
    /\ csp_config = create_csp_config(0)
    /\ store_csp_config = EmptyDict
    /\ archive = << >>
    /\ pc = "setup"
    /\ exit_code = -1
    /\ metering = NoMetering
    /\ storage_faults = 0
    /\ tick = NoTick
    /\ raised = NoException

(***************************************************************************)
(* utils.py: retry_on_exception, one loop iteration per step.  The called  *)
(* function raises a matching exception on its first 'fails' invocations   *)
(* and returns afterwards.  site is the hook being called.                 *)
(***************************************************************************)
\* parameters of retry_on_exception are drawn from -MaxRetryParam..MaxRetryParam
MaxRetryParam == 2
\* the called function raises on at most this many invocations
MaxFails == 4

\* defaults of retry_on_exception
DefaultRetryCount == 3

DefaultRetryDelay == 1

DefaultDelayFactor == 1

\* the hook calls of bootstrap and of a tick: TRUE when the call is made
\* through retry_on_exception
HookCalls ==
    [setup_adapter |-> TRUE,
     get_csp_config |-> TRUE,
     get_account_info |-> TRUE,
     get_archive_location |-> FALSE,
     get_version |-> FALSE,
     save_csp_config |-> TRUE,
     get_cache |-> TRUE,
     save_cache |-> TRUE,
     get_usage_data |-> TRUE,
     meter_billing |-> TRUE,
     update_cache |-> TRUE,
     update_csp_config |-> TRUE]

\* "func_call" is any function handed to retry_on_exception by a caller
Wrapped(site) == IF site = "func_call" THEN TRUE ELSE HookCalls[site]

\* variant: a value that is not positive becomes 1
corrected_to_one(value) == IF value <= 0 THEN 1 ELSE value

\* abs(value), and 1 when that is 0
corrected(value) ==
    LET absolute == IF value < 0 THEN -value ELSE value
    IN  IF absolute = 0 THEN 1 ELSE absolute

InitRetry ==
    /\ \E site \in (DOMAIN HookCalls) \cup {"func_call"},
          retry_count \in (-MaxRetryParam..MaxRetryParam) \cup {DefaultRetryCount},
          retry_delay \in (-MaxRetryParam..MaxRetryParam) \cup {DefaultRetryDelay},
          delay_factor \in (-MaxRetryParam..MaxRetryParam) \cup {DefaultDelayFactor},
          fails \in 0..MaxFails :
        /\ site # "func_call" =>
            /\ retry_count = DefaultRetryCount
            /\ retry_delay = DefaultRetryDelay
            /\ delay_factor = DefaultDelayFactor
        /\ call = [op |-> "retry_on_exception", site |-> site,
                   retry_count |-> retry_count, retry_delay |-> retry_delay,
                   delay_factor |-> delay_factor, fails |-> fails,
                   pc |-> "entry", retries |-> 0, delay |-> 0, delay_mult |-> 0,
                   invocations |-> 0, sleeps |-> << >>, result |-> "none"]
    /\ LoopAtRest

\* the parameter corrections before the loop
RetryEnter ==
    /\ call.op = "retry_on_exception"
    /\ call.pc = "entry"
    /\ Wrapped(call.site)
    /\ call' = [call EXCEPT !.retries = corrected(call.retry_count),
                            !.delay = corrected(call.retry_delay),
                            !.delay_mult = corrected(call.delay_factor),
                            !.pc = "try"]
    /\ UNCHANGED loop_vars

\* variant: the delay is not multiplied after a sleep
RetryAttempt_ConstantDelay ==
    /\ call.op = "retry_on_exception"
    /\ call.pc = "try"
    /\ LET invoked == [call EXCEPT !.invocations = @ + 1]
       IN  IF call.invocations >= call.fails
           THEN call' = [invoked EXCEPT !.result = "returned", !.pc = "done"]
           ELSE IF call.retries = 0
           THEN call' = [invoked EXCEPT !.result = "raised", !.pc = "done"]
           ELSE call' = [invoked EXCEPT !.sleeps = Append(@, call.delay),
                                        !.retries = @ - 1]
    /\ UNCHANGED loop_vars

\* one iteration of the while loop: invoke the function; on an exception
\* re-raise when no retry is left, otherwise sleep, scale the delay and
\* count the retry down
RetryAttempt ==
    /\ call.op = "retry_on_exception"
    /\ call.pc = "try"
    /\ LET invoked == [call EXCEPT !.invocations = @ + 1]
       IN  IF call.invocations >= call.fails
           THEN call' = [invoked EXCEPT !.result = "returned", !.pc = "done"]
           ELSE IF call.retries = 0
           THEN call' = [invoked EXCEPT !.result = "raised", !.pc = "done"]
           ELSE call' = [invoked EXCEPT !.sleeps = Append(@, call.delay),
                                        !.delay = @ * call.delay_mult,
                                        !.retries = @ - 1]
    /\ UNCHANGED loop_vars

\* a hook called without retry_on_exception: its exception leaves the caller
DirectCall ==
    /\ call.op = "retry_on_exception"
    /\ call.pc = "entry"
    /\ ~Wrapped(call.site)
    /\ call' = [call EXCEPT !.invocations = 1,
                            !.result = IF call.fails > 0 THEN "raised"
                                       ELSE "returned",
                            !.pc = "done"]
    /\ UNCHANGED loop_vars

NextRetry ==
    \/ RetryEnter
    \/ RetryAttempt
    \/ DirectCall

SpecRetry == InitRetry /\ [][NextRetry]_vars

\* what retry_on_exception is documented to make of a parameter
Norm(value) == IF value = 0 THEN 1 ELSE IF value < 0 THEN -value ELSE value

\* C21: with retry_count = n >= 1 the function is invoked at most n + 1
\* times; the call returns at the first invocation that succeeds, sleeps
\* once between two invocations with a delay multiplied by delay_factor
\* after each sleep, and raises when all n + 1 invocations have raised.
C21_RetryTerminates ==
    (call.op = "retry_on_exception" /\ Wrapped(call.site)
        /\ call.retry_count >= 1 /\ call.pc # "entry")
    => LET n == call.retry_count
       IN  /\ call.invocations <= n + 1
           /\ call.pc = "try" => call.invocations <= n
           /\ Len(call.sleeps) = IF call.pc = "try" THEN call.invocations
                                 ELSE call.invocations - 1
           /\ \A i \in DOMAIN call.sleeps :
                call.sleeps[i] = IF i = 1 THEN Norm(call.retry_delay)
                                 ELSE call.sleeps[i - 1] * Norm(call.delay_factor)
           /\ call.result = "returned" =>
                call.invocations = call.fails + 1 /\ call.fails <= n
           /\ call.result = "raised" =>
                call.invocations = n + 1 /\ call.fails >= n + 1
           /\ call.pc = "done" => call.result \in {"returned", "raised"}

\* two retries with growing delays, all three invocations raised
C21_Witness ==
    /\ call.op = "retry_on_exception"
    /\ call.pc = "done"
    /\ call.retry_count = 2
    /\ call.result = "raised"
    /\ call.invocations = 3
    /\ call.sleeps = <<1, 2>>

C23_TransientFailureSurvives ==
    (call.op = "retry_on_exception" /\ call.site # "func_call"
        /\ call.pc = "done" /\ call.fails = 1)
    => call.result = "returned"

(***************************************************************************)
(* bill_utils.py: get_billing_dimensions exercised on its own, for a       *)
(* configuration whose metric_b has the given consumption_reporting and    *)
(* dimensions, and a billable usage of 1 for metric_a and 'usage' for      *)
(* metric_b.                                                               *)
(***************************************************************************)
\* largest usage and largest bound of a dimension
MaxUsage == 4
\* longest list of dimensions of a metric
MaxTiers == 2

TierNames == <<"tier_1", "tier_2", "tier_3">>

\* the bounds a dimension of the configuration file may carry
DimensionBounds ==
    {b \in [min : 0..MaxUsage, max : 0..MaxUsage] : b.min <= b.max}
    \cup [min : 0..MaxUsage] \cup [max : 0..MaxUsage] \cup {EmptyDict}

DimensionLists ==
    UNION {[1..n -> DimensionBounds] : n \in 1..MaxTiers}

InitDimensions ==
    /\ \E consumption_reporting \in {"tiered", "volume"},
          usage \in 0..MaxUsage,
          bounds \in DimensionLists :
        call = [op |-> "get_billing_dimensions",
                consumption_reporting |-> consumption_reporting,
                usage |-> usage,
                dimensions |-> [i \in DOMAIN bounds |->
                                    Put(bounds[i], "dimension", TierNames[i])],
                pc |-> "entry",
                mapped |-> Returned(EmptyDict),
                billed |-> Returned(EmptyDict)]
    /\ LoopAtRest

\* get_billing_dimensions reaches a tiered metric_b
CallTiered ==
    /\ call.op = "get_billing_dimensions"
    /\ call.pc = "entry"
    /\ call.consumption_reporting = "tiered"
    /\ call' = [call EXCEPT
                !.mapped = get_tiered_dimensions("metric_b", call.usage,
                                                 call.dimensions, EmptyDict),
                !.billed = get_billing_dimensions(
                                [metric_a |-> 1, metric_b |-> call.usage],
                                EmptyDict),
                !.pc = "done"]
    /\ UNCHANGED loop_vars

\* get_billing_dimensions reaches a volume metric_b
CallVolume ==
    /\ call.op = "get_billing_dimensions"
    /\ call.pc = "entry"
    /\ call.consumption_reporting = "volume"
    /\ call' = [call EXCEPT
                !.mapped = get_volume_dimensions("metric_b", call.usage,
                                                 call.dimensions, EmptyDict),
                !.billed = get_billing_dimensions(
                                [metric_a |-> 1, metric_b |-> call.usage],
                                EmptyDict),
                !.pc = "done"]
    /\ UNCHANGED loop_vars

NextDimensions ==
    \/ CallTiered
    \/ CallVolume

SpecDimensions == InitDimensions /\ [][NextDimensions]_vars

\* the range [Lo, Hi] a dimension stands for; a missing bound is unbounded
Lo(dimension) == IF "min" \in DOMAIN dimension THEN dimension.min ELSE 0

HasHi(dimension) == "max" \in DOMAIN dimension

Contains(dimension, value) ==
    /\ Lo(dimension) <= value
    /\ HasHi(dimension) => value <= dimension.max

\* each tier starts right after the end of the one before
Contiguous(dimensions) ==
    \A i \in 2..Len(dimensions) :
        /\ HasHi(dimensions[i - 1])
        /\ "min" \in DOMAIN dimensions[i]
        /\ dimensions[i].min = dimensions[i - 1].max + 1

\* each tier starts after the end of the one before
Disjoint(dimensions) ==
    \A i \in 2..Len(dimensions) :
        /\ HasHi(dimensions[i - 1])
        /\ "min" \in DOMAIN dimensions[i]
        /\ dimensions[i].min > dimensions[i - 1].max

Covered(dimensions, value) ==
    \E i \in DOMAIN dimensions : Contains(dimensions[i], value)

RECURSIVE SumOver(_, _)
SumOver(names, amounts) ==
    IF names = {} THEN 0
    ELSE LET name == CHOOSE x \in names : TRUE
         IN  amounts[name] + SumOver(names \ {name}, amounts)

\* C26: when the tiers are contiguous and cover [1, usage],
\* get_tiered_dimensions succeeds, the amounts it emits sum to usage, and
\* the amount of a tier lies between 0 and the size of its range.
C26_TieredSum ==
    ( /\ call.op = "get_billing_dimensions"
      /\ call.pc = "done"
      /\ call.consumption_reporting = "tiered"
      /\ Contiguous(call.dimensions)
      /\ \A value \in 1..call.usage : Covered(call.dimensions, value) )
    => /\ call.mapped.ok
       /\ SumOver(DOMAIN call.mapped.dims, call.mapped.dims) = call.usage
       /\ \A i \in DOMAIN call.dimensions :
            LET dimension == call.dimensions[i]
                name == dimension.dimension
            IN  name \in DOMAIN call.mapped.dims =>
                    /\ call.mapped.dims[name] >= 0
                    /\ call.mapped.dims[name] <= call.usage
                    /\ HasHi(dimension) =>
                        call.mapped.dims[name]
                            <= dimension.max - Max2(Lo(dimension), 1) + 1

\* a usage of 4 spread over the tiers [1, 2] and [3, 4]
C26_Witness ==
    /\ call.op = "get_billing_dimensions"
    /\ call.pc = "done"
    /\ call.consumption_reporting = "tiered"
    /\ call.usage = 4
    /\ Len(call.dimensions) = 2
    /\ call.dimensions[1] = [dimension |-> "tier_1", min |-> 1, max |-> 2]
    /\ call.dimensions[2] = [dimension |-> "tier_2", min |-> 3, max |-> 4]
    /\ call.mapped = Returned([tier_1 |-> 2, tier_2 |-> 2])

C28_VolumeExclusive ==
    ( /\ call.op = "get_billing_dimensions"
      /\ call.pc = "done"
      /\ call.consumption_reporting = "volume" )
    => LET matching == {i \in DOMAIN call.dimensions :
                            Contains(call.dimensions[i], call.usage)}
       IN  IF matching = {}
           THEN call.mapped =
                Raised("NoMatchingVolumeDimensionError", "metric_b", call.usage)
           ELSE LET first == CHOOSE i \in matching : \A j \in matching : i <= j
                IN  /\ call.mapped.ok
                    /\ DOMAIN call.mapped.dims =
                            {call.dimensions[first].dimension}
                    /\ call.mapped.dims[call.dimensions[first].dimension]
                            = call.usage

\* two dimensions contain the usage and only the first one was emitted
C28_Witness ==
    /\ call.op = "get_billing_dimensions"
    /\ call.pc = "done"
    /\ call.consumption_reporting = "volume"
    /\ Len(call.dimensions) = 2
    /\ Contains(call.dimensions[1], call.usage)
    /\ Contains(call.dimensions[2], call.usage)
    /\ call.mapped = Returned([tier_1 |-> call.usage])
    /\ call.billed = Returned([dim_A |-> 1, tier_1 |-> call.usage])

(***************************************************************************)
(* csp_cache.py and bill_utils.py: the usage records of the cache under    *)
(* add_usage_record calls with records in any order and fully successful   *)
(* process_metering runs, at the first billing time of a cache created at  *)
(* time 0.  call.billed collects the billable records of the successful    *)
(* runs.                                                                   *)
(***************************************************************************)
\* longest list of usage records the calls build up
MaxCacheRecords == 3

\* the records a caller may pass to add_usage_record
AnyRecords ==
    {[reporting_time |-> date_to_string(t),
      metric_a |-> q.metric_a,
      metric_b |-> q.metric_b] : t \in 0..MaxTime, q \in Quantities}

InitCache ==
    /\ call = [op |-> "add_usage_record", record |-> EmptyDict, billed |-> {}]
    /\ cache = create_cache(0)
    /\ now = string_to_date(create_cache(0).next_bill_time)
    /\ start = string_to_date(create_cache(0).next_bill_time)
    /\ store_cache = EmptyDict
    /\ csp_config = create_csp_config(0)
    /\ store_csp_config = EmptyDict
    /\ archive = << >>
    /\ pc = "setup"
    /\ exit_code = -1
    /\ metering = NoMetering
    /\ storage_faults = 0
    /\ tick = NoTick
    /\ raised = NoException

\* add_usage_record(record, cache, billing_interval)
CallAddUsageRecord ==
    /\ call.op = "add_usage_record"
    /\ Len(cache.usage_records) < MaxCacheRecords
    /\ \E record \in AnyRecords :
        /\ cache' = [cache EXCEPT !.usage_records =
                        add_usage_record(record, cache, config.billing_interval)]
        /\ call' = [call EXCEPT !.record = record]
    /\ UNCHANGED <<csp_config, store_cache, store_csp_config, archive, now,
                   start, pc, exit_code, metering, storage_faults, tick, raised>>

\* process_metering(config, now, cache, csp_config, hook) bills the usage
\* of the period and hook.meter_billing reports every dimension succeeded
CallProcessMetering ==
    /\ call.op = "add_usage_record"
    /\ MeteringMode = "real"
    /\ billed_dimensions.ok
    /\ cache' = CacheAfterSuccess([d \in DOMAIN billed_dimensions.dims |->
                                        Succeeded])
    /\ csp_config' = CspConfigAfterSuccess
    /\ call' = [call EXCEPT
                !.record = EmptyDict,
                !.billed = @ \cup {billable_records[i] :
                                        i \in DOMAIN billable_records}]
    /\ UNCHANGED <<store_cache, store_csp_config, archive, now, start, pc,
                   exit_code, metering, storage_faults, tick, raised>>

NextCache ==
    \/ CallAddUsageRecord
    \/ CallProcessMetering

SpecCache == InitCache /\ [][NextCache]_vars

\* C24: add_usage_record with a record whose reporting_time is that of the
\* last record of the cache leaves the cache as it was.
C24_DuplicateIsNoOp ==
    [][ ( /\ call.op = "add_usage_record"
          /\ call'.record # EmptyDict
          /\ cache.usage_records # << >>
          /\ call'.record.reporting_time =
                cache.usage_records[Len(cache.usage_records)].reporting_time )
        => cache' = cache ]_vars

\* a record with the reporting_time of the last record and other quantities
\* was passed and is not in the cache
C24_Witness ==
    /\ call.op = "add_usage_record"
    /\ call.record # EmptyDict
    /\ cache.usage_records # << >>
    /\ call.record.reporting_time =
            cache.usage_records[Len(cache.usage_records)].reporting_time
    /\ \A i \in DOMAIN cache.usage_records : cache.usage_records[i] # call.record

\* C25: after any sequence of add_usage_record calls and process_metering
\* runs, no two adjacent usage records share a reporting_time.
C25_NoAdjacentDuplicates ==
    call.op = "add_usage_record" =>
        \A i \in 1..(Len(cache.usage_records) - 1) :
            cache.usage_records[i].reporting_time
                # cache.usage_records[i + 1].reporting_time

(***************************************************************************)
(* archive.py: append_metering_records, called again and again on the      *)
(* archive it returned, with one max_length and one max_bytes.  A billing  *)
(* record is [id, size]: id numbers the calls, size is the length of the   *)
(* record's JSON text.  The while loop takes one step per iteration.       *)
(***************************************************************************)
\* largest max_length
MaxLength == 3
\* largest max_bytes
MaxArchiveBytes == 12
\* longest JSON text of a billing record; the shortest one, '{}', has 2 bytes
MaxRecordBytes == 4
\* number of append_metering_records calls
MaxAppends == 4

\* len(bytes(json.dumps(archive), 'utf-8')): the brackets, the records and
\* a ', ' between two records
RECURSIVE json_dumps_len(_)
json_dumps_len(records) ==
    IF records = << >> THEN 2
    ELSE IF Len(records) = 1 THEN 2 + records[1].size
    ELSE records[1].size + 2 + json_dumps_len(Tail(records))

\* archive[1:]
DropOldest(records) == IF records = << >> THEN << >> ELSE Tail(records)

\* variant: only max_bytes 0 disables the limit
bytes_limit_enabled_nonzero(max_bytes) == max_bytes > 0

\* max_bytes 0 and 1 disable the limit
bytes_limit_enabled(max_bytes) == max_bytes > 1

InitArchive ==
    /\ \E max_length \in 0..MaxLength, max_bytes \in 0..MaxArchiveBytes :
        call = [op |-> "append_metering_records",
                max_length |-> max_length,
                max_bytes |-> max_bytes,
                pc |-> "return",
                appended |-> 0]
    /\ LoopAtRest

\* append_metering_records up to the while loop
CallAppend ==
    /\ call.op = "append_metering_records"
    /\ call.pc = "return"
    /\ call.appended < MaxAppends
    /\ \E size \in 2..MaxRecordBytes :
        LET billing_record == [id |-> call.appended + 1, size |-> size]
            appended == Append(archive, billing_record)
        IN  archive' = IF Len(appended) > call.max_length
                       THEN DropOldest(appended) ELSE appended
    /\ call' = [call EXCEPT
                !.appended = call.appended + 1,
                !.pc = IF bytes_limit_enabled(call.max_bytes)
                       THEN "while" ELSE "return"]
    /\ UNCHANGED <<cache, csp_config, store_cache, store_csp_config, now, start,
                   pc, exit_code, metering, storage_faults, tick, raised>>

\* one iteration of the while loop
TrimArchive ==
    /\ call.op = "append_metering_records"
    /\ call.pc = "while"
    /\ IF json_dumps_len(archive) > call.max_bytes
       THEN /\ archive' = DropOldest(archive)
            /\ call' = call
       ELSE /\ archive' = archive
            /\ call' = [call EXCEPT !.pc = "return"]
    /\ UNCHANGED <<cache, csp_config, store_cache, store_csp_config, now, start,
                   pc, exit_code, metering, storage_faults, tick, raised>>

NextArchive ==
    \/ CallAppend
    \/ TrimArchive

SpecArchive == InitArchive /\ [][NextArchive]_vars

IsSuffix(short, long) ==
    /\ Len(short) <= Len(long)
    /\ short = SubSeq(long, Len(long) - Len(short) + 1, Len(long))

\* C29: with max_length >= 1, every archive append_metering_records returns
\* has at most max_length records and, when max_bytes > 1, a JSON text of at
\* most max_bytes bytes; an iteration of the trimming loop that does not
\* leave the loop finds a record to drop, so that the loop ends; and what a
\* step keeps is the newest records, in their order.
C29_ArchiveWithinCaps ==
    /\ [] ( ( /\ call.op = "append_metering_records"
              /\ call.max_length >= 1 )
            => /\ call.pc = "return" =>
                    /\ Len(archive) <= call.max_length
                    /\ call.max_bytes > 1 =>
                            json_dumps_len(archive) <= call.max_bytes
               /\ ( /\ call.pc = "while"
                    /\ json_dumps_len(archive) > call.max_bytes )
                    => archive # << >> )
    /\ [][ ( /\ call.op = "append_metering_records"
             /\ call.max_length >= 1 )
           => /\ call.pc = "while" =>
                    /\ IsSuffix(archive', archive)
                    /\ call'.pc = "return" \/ Len(archive') < Len(archive)
              /\ call.pc = "return" =>
                    \E size \in 2..MaxRecordBytes :
                        IsSuffix(archive',
                                 Append(archive, [id |-> call'.appended,
                                                  size |-> size])) ]_vars

\* the byte cap alone made the loop drop the two oldest of three records
C29_Witness ==
    /\ call.op = "append_metering_records"
    /\ call.pc = "return"
    /\ call.max_length = 3
    /\ call.max_bytes > 1
    /\ call.appended = 3
    /\ Len(archive) = 1
    /\ archive[1].id = 3

(***************************************************************************)
(* adapter.py: the event loop of a fixed billing deployment, from the      *)
(* first start at time t up to the first billing date.                     *)
(***************************************************************************)
InitFixed ==
    \E t \in 0..MaxTime :
        /\ call = [op |-> "fixed_billing"]
        /\ now = t
        /\ start = t
        /\ cache = create_cache(t)
        /\ store_cache = EmptyDict
        /\ csp_config = create_csp_config(t)
        /\ store_csp_config = EmptyDict
        /\ archive = << >>
        /\ pc = "setup"
        /\ exit_code = -1
        /\ metering = NoMetering
        /\ storage_faults = 0
        /\ tick = NoTick
        /\ raised = NoException

\* event_loop_handler: neither billing nor reporting can be decided, the
\* TypeError of string_to_date(cache['next_reporting_time']) leaves
\* event_loop_handler before the stores are written and main() exits with
\* code 1
MeteringModeRaises ==
    /\ pc = "meter"
    /\ MeteringMode = "raises"
    /\ raised' = Exception("TypeError")
    /\ pc' = "exited"
    /\ exit_code' = main_exit_code(raised')
    /\ UNCHANGED <<cache, csp_config, store_cache, store_csp_config, archive,
                   now, start, metering, storage_faults, tick, call>>

NextFixed ==
    \/ SetupOk
    \/ MeteringTestOk
    \/ Sleep
    \/ GetUsageOk
    \/ GetUsageNone
    \/ GetUsageFails
    \/ MeteringModeRaises

SpecFixed == InitFixed /\ [][NextFixed]_vars

\* C31 (as stated): in fixed billing mode a tick that starts before the
\* first billing date completes normally: no exception ends the process,
\* and at the end of the tick the usage record is in the cache without
\* window validation, no metering was attempted, csp_config.errors is
\* empty, both stores are written and csp_config.timestamp is the start
\* time of the tick.
C31_FixedTickCompletes ==
    ( /\ call.op = "fixed_billing"
      /\ tick.usage = "ok"
      /\ start < string_to_date(cache.next_bill_time) )
    => /\ raised = NoException
       /\ pc = "sleep" =>
            /\ metering = NoMetering
            /\ csp_config.errors = << >>
            /\ csp_config.timestamp = date_to_string(start)
            /\ store_cache = cache
            /\ store_csp_config = csp_config

(***************************************************************************)
(* adapter.py: initial_adapter_setup at time 'now' on the stores a         *)
(* previous run may have left.  call.persisted is the cache that was       *)
(* stored when hook.get_cache was called, call.get_cache the outcome of    *)
(* hook.get_cache after its retries.                                       *)
(***************************************************************************)
\* the caches a previous run started at time 0 may have stored
PersistedCaches ==
    {EmptyDict}
    \cup {[create_cache(0) EXCEPT !.usage_records = records] :
            records \in {<< >>} \cup {<<record>> : record \in UsageData(2)}}

\* the csp_config documents a previous run started at time 0 may have stored
PersistedCspConfigs == {EmptyDict, create_csp_config(0)}

InitBootstrap ==
    /\ call = [op |-> "initial_adapter_setup", pc |-> "csp_config",
               persisted |-> EmptyDict, get_cache |-> "not_run",
               initial_deploy |-> FALSE]
    /\ \E t \in 0..MaxTime, stored \in PersistedCaches,
          stored_csp_config \in PersistedCspConfigs :
        /\ now = t
        /\ start = t
        /\ cache = EmptyDict
        /\ store_cache = stored
        /\ csp_config = EmptyDict
        /\ store_csp_config = stored_csp_config
        /\ archive = << >>
        /\ pc = "setup"
        /\ exit_code = -1
        /\ metering = NoMetering
        /\ storage_faults = 0
        /\ tick = NoTick
        /\ raised = NoException

\* variant: whatever get_cache returned, a new cache is created
cache_is_absent_always(loaded) == TRUE

\* 'if not cache'
cache_is_absent(loaded) == loaded = EmptyDict

\* hook.get_csp_config returns the stored document or raises on every
\* retry; an empty or missing csp_config is created; hook.save_csp_config
\* succeeds
BootstrapCspConfig ==
    /\ call.op = "initial_adapter_setup"
    /\ call.pc = "csp_config"
    /\ \E got \in {"returned", "raised"} :
        LET loaded == IF got = "returned" THEN store_csp_config ELSE EmptyDict
        IN  csp_config' = IF loaded = EmptyDict THEN create_csp_config(now)
                          ELSE loaded
    /\ store_csp_config' = csp_config'
    /\ call' = [call EXCEPT !.pc = "cache"]
    /\ UNCHANGED <<cache, store_cache, archive, now, start, pc, exit_code,
                   metering, storage_faults, tick, raised>>

\* hook.save_csp_config raises on every retry: FailedToSaveCSPConfigError
\* leaves initial_adapter_setup and main() exits with code 2
BootstrapCspConfigFails ==
    /\ call.op = "initial_adapter_setup"
    /\ call.pc = "csp_config"
    /\ \E got \in {"returned", "raised"} :
        LET loaded == IF got = "returned" THEN store_csp_config ELSE EmptyDict
        IN  csp_config' = IF loaded = EmptyDict THEN create_csp_config(now)
                          ELSE loaded
    /\ raised' = Exception("FailedToSaveCSPConfigError")
    /\ pc' = "exited"
    /\ exit_code' = main_exit_code(raised')
    /\ call' = [call EXCEPT !.pc = "raised"]
    /\ UNCHANGED <<cache, store_cache, store_csp_config, archive, now, start,
                   metering, storage_faults, tick>>

\* hook.get_cache returns the stored cache or raises on every retry, which
\* is handled as an empty cache; an empty cache is replaced by a new one
\* that hook.save_cache stores
BootstrapCache ==
    /\ call.op = "initial_adapter_setup"
    /\ call.pc = "cache"
    /\ \E got \in {"returned", "raised"} :
        LET loaded == IF got = "returned" THEN store_cache ELSE EmptyDict
        IN  /\ cache' = IF cache_is_absent(loaded) THEN create_cache(now)
                        ELSE loaded
            /\ store_cache' = IF cache_is_absent(loaded) THEN cache'
                              ELSE store_cache
            /\ call' = [call EXCEPT !.pc = "done", !.get_cache = got,
                                    !.persisted = store_cache,
                                    !.initial_deploy = cache_is_absent(loaded)]
    /\ pc' = "metering_test"
    /\ UNCHANGED <<csp_config, store_csp_config, archive, now, start, exit_code,
                   metering, storage_faults, tick, raised>>

\* the cache is to be created and hook.save_cache raises on every retry:
\* FailedToSaveCacheError leaves initial_adapter_setup and main() exits
\* with code 2
BootstrapCacheFails ==
    /\ call.op = "initial_adapter_setup"
    /\ call.pc = "cache"
    /\ \E got \in {"returned", "raised"} :
        LET loaded == IF got = "returned" THEN store_cache ELSE EmptyDict
        IN  /\ cache_is_absent(loaded)
            /\ call' = [call EXCEPT !.pc = "raised", !.get_cache = got]
    /\ raised' = Exception("FailedToSaveCacheError")
    /\ pc' = "exited"
    /\ exit_code' = main_exit_code(raised')
    /\ UNCHANGED <<cache, csp_config, store_cache, store_csp_config, archive,
                   now, start, metering, storage_faults, tick>>

NextBootstrap ==
    \/ BootstrapCspConfig
    \/ BootstrapCspConfigFails
    \/ BootstrapCache
    \/ BootstrapCacheFails

SpecBootstrap == InitBootstrap /\ [][NextBootstrap]_vars

\* C32 (as stated): whenever a non-empty cache is persisted,
\* initial_adapter_setup leaves the persisted cache untouched, returns it
\* and returns initial_deploy = false.
C32_PersistedCacheKept ==
    ( /\ call.op = "initial_adapter_setup"
      /\ call.pc = "done"
      /\ call.persisted # EmptyDict )
    => /\ store_cache = call.persisted
       /\ cache = call.persisted
       /\ ~call.initial_deploy

\* C32 (amended): when hook.get_cache returns a non-empty cache,
\* initial_adapter_setup leaves the store untouched, returns that cache
\* and initial_deploy = false; when it returns an empty cache or raises on
\* every retry, a cache created at the present time is stored in place of
\* whatever was persisted and initial_deploy is true.
C32_LoadedCacheKept ==
    ( /\ call.op = "initial_adapter_setup"
      /\ call.pc = "done" )
    => IF call.get_cache = "returned" /\ call.persisted # EmptyDict
       THEN /\ store_cache = call.persisted
            /\ cache = call.persisted
            /\ ~call.initial_deploy
       ELSE /\ cache = create_cache(now)
            /\ store_cache = cache
            /\ call.initial_deploy

\* a persisted cache with a usage record was loaded and kept
C32_Witness ==
    /\ call.op = "initial_adapter_setup"
    /\ call.pc = "done"
    /\ call.get_cache = "returned"
    /\ call.persisted # EmptyDict
    /\ Len(call.persisted.usage_records) = 1
    /\ now > 2
    /\ cache = call.persisted
    /\ store_cache = call.persisted
    /\ ~call.initial_deploy

\* a mapping was written to a store with update (not replace): the store
\* holds every key of the mapping with the mapping's value
WrittenTo(store, document) ==
    \A key \in DOMAIN document :
        key \in DOMAIN store /\ store[key] = document[key]

\* C33 (as stated): once the writes of a tick are issued, neither cache nor
\* csp_config is mutated any more in that tick.
C33_NoMutationAfterWrites ==
    [][ (pc = "persist" /\ pc' = "sleep")
        => (cache' = cache /\ csp_config' = csp_config) ]_vars

\* C33 (amended): the cache is not mutated once update_cache is issued and
\* a successful update_cache stores the cache as it is at the end of the
\* tick; a successful update_csp_config stores the csp_config as it is at
\* the end of the tick, timestamp and cache-save error included; a failed
\* write leaves its store as it was.
C33_WrittenIsFinal ==
    [][ (pc = "persist" /\ pc' = "sleep")
        => /\ cache' = cache
           /\ IF tick'.cache_saved THEN WrittenTo(store_cache', cache')
              ELSE store_cache' = store_cache
           /\ IF tick'.csp_config_saved
              THEN WrittenTo(store_csp_config', csp_config')
              ELSE store_csp_config' = store_csp_config ]_vars

\* a tick whose metering succeeded wrote both documents, the csp_config
\* with the timestamp of the tick
C33_Witness ==
    /\ pc = "sleep"
    /\ tick.usage = "ok"
    /\ tick.cache_saved
    /\ tick.csp_config_saved
    /\ metering.outcome = "succeeded"
    /\ metering.timestamp = start
    /\ start > 0
    /\ store_csp_config.timestamp = date_to_string(start)
    /\ WrittenTo(store_cache, cache)

\* C34: no tick, and so no metering that is not a dry run, happens before
\* the metering test of the bootstrap has succeeded; the metering test
\* does not modify the cache; and on a first deployment the first tick
\* starts at least one query_interval after the metering test.
C34_MeteringTestBeforeFirstTick ==
    /\ [] ( ( \/ pc \in {"setup", "metering_test"}
              \/ raised.type \in CSPBillingAdapterException )
            => /\ tick = NoTick
               /\ metering = NoMetering
               /\ cache.usage_records = << >> )
    /\ [][ /\ pc = "metering_test" =>
                (cache' = cache /\ store_cache' = store_cache)
           /\ pc' = "start" => pc = "sleep"
           /\ (pc = "sleep" /\ tick = NoTick /\ pc' = "start") =>
                now' >= now + config.query_interval ]_vars

\* the first tick of a first deployment, one query_interval after the
\* metering test at time 0
C34_Witness ==
    /\ call = NoCall
    /\ pc = "meter"
    /\ tick.usage = "ok"
    /\ start = config.query_interval
    /\ cache.adapter_start_time = date_to_string(0)
    /\ Len(cache.usage_records) = 1
    /\ metering = NoMetering

(***************************************************************************)
(* The calls of the event loop over several billing cycles: the clock      *)
(* moves on between them, up to MaxCycleTime.                              *)
(***************************************************************************)
\* last time of the clock: the end of the second billing cycle of a cache
\* created at time 0
MaxCycleTime == 10

\* time passes between two ticks
CallClock ==
    /\ call.op = "add_usage_record"
    /\ start < MaxCycleTime
    /\ start' = start + 1
    /\ now' = start + 1
    /\ UNCHANGED <<cache, csp_config, store_cache, store_csp_config, archive,
                   pc, exit_code, metering, storage_faults, tick, raised, call>>

\* add_usage_record with a record the product reports at this time, or
\* with a record that has been billed already
CallAddUsageData ==
    /\ call.op = "add_usage_record"
    /\ Len(cache.usage_records) < MaxRecords
    /\ \E record \in UsageData(start) \cup call.billed :
        /\ cache' = [cache EXCEPT !.usage_records =
                        add_usage_record(record, cache, config.billing_interval)]
        /\ call' = [call EXCEPT !.record = record]
    /\ UNCHANGED <<csp_config, store_cache, store_csp_config, archive, now,
                   start, pc, exit_code, metering, storage_faults, tick, raised>>

NextCycles ==
    \/ CallAddUsageData
    \/ CallProcessMetering
    \/ CallClock

SpecCycles == InitCache /\ [][NextCycles]_vars

C36_NoLostUsage ==
    [][ \A i \in DOMAIN cache.usage_records :
            LET record == cache.usage_records[i]
            IN  (\A j \in DOMAIN cache'.usage_records :
                    cache'.usage_records[j] # record)
                => /\ pc = "meter"
                   /\ metering'.mode = "real"
                   /\ metering'.outcome = "succeeded"
                   /\ metering'.timestamp = start
                   /\ InWindow(record) ]_vars

\* a bill failed in part and the cache could not be written: the record is
\* still in the cache
C36_Witness ==
    /\ call = NoCall
    /\ pc = "sleep"
    /\ metering.mode = "real"
    /\ metering.outcome = "partial"
    /\ metering.timestamp = start
    /\ ~tick.cache_saved
    /\ Len(cache.usage_records) >= 1
    /\ InWindow(cache.usage_records[1])

(***************************************************************************)
(* The event loop under the hypotheses of a run that keeps ticking: main's *)
(* while loop (adapter.py 423-439) runs for ever, so every step of it that *)
(* is enabled is eventually taken.  No signal and no exception ends the    *)
(* run, a tick takes no longer than query_interval (so that time.sleep is  *)
(* never given a negative remainder), and the CSP fails only in ticks that *)
(* start at or before LastFaultTime: the tick that follows finds it        *)
(* working.                                                                *)
(***************************************************************************)
LastFaultTime == MaxTime - config.query_interval

EarlyMeterRaises ==
    /\ start <= LastFaultTime
    /\ MeterRaises

EarlyMeterPartial ==
    /\ start <= LastFaultTime
    /\ MeterPartial

TimelyPersist ==
    /\ Persist
    /\ now' - start <= config.query_interval

NextLive ==
    \/ SetupOk
    \/ MeteringTestOk
    \/ Sleep
    \/ GetUsageOk
    \/ GetUsageNone
    \/ GetUsageFails
    \/ SkipMetering
    \/ MeterMappingError
    \/ EarlyMeterRaises
    \/ EarlyMeterPartial
    \/ MeterSucceeds
    \/ TimelyPersist

(* The steps of the loop other than the metering step. *)
LoopStep ==
    \/ SetupOk
    \/ MeteringTestOk
    \/ Sleep
    \/ GetUsageOk
    \/ GetUsageNone
    \/ GetUsageFails
    \/ TimelyPersist

(* The metering step of a tick returns.  At pc = "meter" one of SkipMetering,
   MeterMappingError and MeterSucceeds is always enabled, so this step is
   enabled exactly when the tick is at its metering step. *)
MeteringStep == pc = "meter" /\ pc' = "persist"

SpecLive ==
    /\ Init
    /\ [][NextLive]_vars
    /\ WF_vars(LoopStep)
    /\ WF_pc(MeteringStep)

(* The tick has started with now >= next_bill_time. *)
BillDue == pc = "meter" /\ MeteringMode = "real"

(* The usage that is due does not map to the configured dimensions. *)
UsageUnmapped == pc = "meter" /\ ~billed_dimensions.ok

(* next_bill_time has moved past the start of the tick in which the bill was
   due (the clock never goes back, so it has moved past its value in that
   tick), and the CSP is recorded as reachable. *)
BillTimeAdvanced ==
    /\ NextBillTime > start
    /\ csp_config.billing_api_access_ok

(* C37: while ticks keep occurring and the CSP has stopped failing, every    *)
(* tick that starts with now >= next_bill_time is eventually followed by a   *)
(* state in which next_bill_time has advanced and billing_api_access_ok is   *)
(* true (unless the usage does not map to the configured dimensions); and a  *)
(* bill that failed or partially failed is due again at the very next tick.  *)
C37_DueBillEventuallySucceeds ==
    /\ BillDue ~> (BillTimeAdvanced \/ UsageUnmapped)
    /\ [](/\ pc = "meter"
          /\ metering.mode = "real"
          /\ metering.outcome \in {"raised", "partial"}
          => /\ MeteringMode = "real"
             /\ metering.timestamp < start)

(* A bill that failed in one tick has succeeded in a later one. *)
C37_Witness ==
    /\ pc = "persist"
    /\ metering.mode = "real"
    /\ metering.outcome = "succeeded"
    /\ csp_config.billing_api_access_ok
    /\ "billing_status" \notin DOMAIN cache
    /\ "billing_status" \in DOMAIN store_cache
    /\ get_errors(store_cache.billing_status) # << >>
    /\ NextBillTime > start

(* C38: in periodic mode csp_config's expire equals the cache's              *)
(* next_reporting_time in the state a fully successful metering leaves, and  *)
(* no later step of the run, whatever the outcome of its tick, makes the two *)
(* differ again.                                                             *)
C38_ExpireIsNextReportingTime ==
    /\ [](/\ pc = "persist"
          /\ metering.timestamp = start
          /\ metering.outcome = "succeeded"
          => csp_config.expire = cache.next_reporting_time)
    /\ [][csp_config.expire = cache.next_reporting_time
            => csp_config'.expire = cache'.next_reporting_time]_vars

(* A tick whose metering failed, after an earlier metering has succeeded and *)
(* moved both dates away from the values they were created with.             *)
C38_Witness ==
    /\ pc = "sleep"
    /\ metering.timestamp = start
    /\ metering.outcome \in {"raised", "partial"}
    /\ csp_config.expire = cache.next_reporting_time
    /\ string_to_date(csp_config.expire) > 1 + config.reporting_interval

(* C39: at the end of a tick in which process_metering was called,          *)
(* billing_api_access_ok is true exactly when the attempt fully succeeded   *)
(* (no exception, no per-dimension error); and the flag changes in no step  *)
(* other than a metering attempt, so a tick without one leaves it as it     *)
(* was.                                                                     *)
C39_AccessOkIffSucceeded ==
    /\ [](/\ pc = "sleep"
          /\ metering.timestamp = start
          => (csp_config.billing_api_access_ok
                <=> metering.outcome = "succeeded"))
    /\ [][csp_config'.billing_api_access_ok # csp_config.billing_api_access_ok
            => /\ pc = "meter"
               /\ MeteringMode # "none"
               /\ metering'.timestamp = start]_vars

(* The end of a tick whose metering had a per-dimension error, in a run in *)
(* which an earlier metering had succeeded.                                *)
C39_Witness ==
    /\ pc = "sleep"
    /\ metering.timestamp = start
    /\ metering.outcome = "partial"
    /\ ~csp_config.billing_api_access_ok
    /\ string_to_date(cache.next_reporting_time) > 1 + config.reporting_interval

(***************************************************************************)
(* get_next_bill_time and get_prev_bill_time applied to the end of a       *)
(* billing cycle: process_metering moves next_bill_time on by one interval *)
(* (bill_utils.py 607-612), and filter_usage_records_in_billing_period     *)
(* starts the next cycle's window one interval before that                 *)
(* (bill_utils.py 428-432).                                                *)
(***************************************************************************)
MaxYear == 2024

PeriodicIntervals == {"hourly", "daily", "monthly", "test"}

InitBillTime ==
    /\ \E year \in (MaxYear - 1)..MaxYear, month \in 1..12, day \in 1..31,
          minute \in {0, MinutesPerDay - 1},
          billing_interval \in PeriodicIntervals :
        /\ day <= days_in_month(year, month)
        /\ call = [op |-> "get_next_bill_time",
                   date |-> datetime(year, month, day, minute),
                   billing_interval |-> billing_interval,
                   next_bill_time |-> -1,
                   range_start |-> -1,
                   pc |-> "entry"]
    /\ LoopAtRest

\* the cycle that ended at call.date is followed by one that ends here
CallGetNextBillTime ==
    /\ call.op = "get_next_bill_time"
    /\ call.pc = "entry"
    /\ call' = [call EXCEPT
                !.next_bill_time =
                    get_next_bill_time(call.date, call.billing_interval),
                !.pc = "billed"]
    /\ UNCHANGED loop_vars

\* the window of the cycle that ends at call.next_bill_time
CallGetPrevBillTime ==
    /\ call.op = "get_next_bill_time"
    /\ call.pc = "billed"
    /\ call' = [call EXCEPT
                !.range_start =
                    get_prev_bill_time(call.next_bill_time,
                                       call.billing_interval),
                !.pc = "done"]
    /\ UNCHANGED loop_vars

NextBillTimes ==
    \/ CallGetNextBillTime
    \/ CallGetPrevBillTime

SpecBillTime == InitBillTime /\ [][NextBillTimes]_vars

(* C40: for every date d and every periodic billing interval,              *)
(* get_prev_bill_time(get_next_bill_time(d)) <= d, with equality for       *)
(* hourly, daily and test; so the window of the cycle that follows the one *)
(* ending at d starts no later than d and ends after it, and no time       *)
(* between two consecutive windows is left out.                            *)
C40_PrevOfNextNotAfter ==
    call.op = "get_next_bill_time" /\ call.pc = "done"
    => /\ call.range_start <= call.date
       /\ call.date < call.next_bill_time
       /\ call.billing_interval \in {"hourly", "daily", "test"}
            => call.range_start = call.date

(* A monthly cycle that ends on the 29th to 31st of a month longer than the *)
(* next: the next window starts before it, on the day the shorter month    *)
(* ends with.                                                              *)
C40_Witness ==
    /\ call.op = "get_next_bill_time"
    /\ call.pc = "done"
    /\ call.billing_interval = "monthly"
    /\ date_day(call.date) \in 29..31
    /\ date_day(call.next_bill_time) < date_day(call.date)
    /\ date_day(call.range_start) = date_day(call.next_bill_time)
    /\ date_month(call.range_start) = date_month(call.date)
    /\ call.range_start < call.date

====
